---- MODULE Spec2Model ----
(***************************************************************************)
(* Verification model of the LightRAG chat gateway                         *)
(* (light-rag-agent/LightRAG/app): the per-user rate limiter, the chat     *)
(* handlers and their response cache (app/api/server.py), the retrieve     *)
(* tool with its adaptive timeout and fallback (app/agent/rag_agent.py),   *)
(* the timestamped result caches (app/core/performance.py) and the         *)
(* multi-level IntelligentChatCache (app/core/chat_cache.py).              *)
(*                                                                         *)
(* Time is a discrete clock `now` that counts ticks; time.time() is a float *)
(* and a second holds TICKS_PER_SECOND ticks, so that int() of a number of *)
(* seconds rounds down as it does in the code.                             *)
(* Texts are sequences of one-character strings, so that strip(), split()  *)
(* and the "|"-joined cache keys are computed, not assumed.                *)
(***************************************************************************)
EXTENDS Integers, Sequences, FiniteSets, TLC

----------------------------------------------------------------------------
(* Bounds of the model *)

\* the clock runs from 0 to MaxTime
MaxTime == 3
\* ticks of the clock in one second
TICKS_PER_SECOND == 2
\* the configured RAG_USER_RATE_LIMIT ranges over 0..MaxLimit
MaxLimit == 2
\* chat and chat/stream requests started in one behaviour of SpecRate
MaxRateRequests == 3
\* chat and chat/stream requests started in one behaviour of SpecChat
MaxChatRequests == 2
\* requests in flight at the same time
MaxInFlight == 2
\* invocations of retrieve started in one behaviour of SpecRetrieve
MaxRetrieves == 3
\* lookups and stores made in one behaviour of SpecCaches
MaxCacheCalls == 3
\* the largest cache_ttl and max_cache_size a PerformanceOptimizer is built with
MaxTtl == 2
MaxCacheSize == 2
\* calls made on the IntelligentChatCache in one behaviour of SpecIntel
MaxIntelCalls == 3

----------------------------------------------------------------------------
(* Texts *)

\* None and the empty string are both falsy in the `a or b` chains of the code
NoText == <<>>

Rep(c, n) == [i \in 1..n |-> c]

IsSpace(c) == c \in {" ", "\n"}

RECURSIVE LStrip(_)
LStrip(s) == IF s # <<>> /\ IsSpace(Head(s)) THEN LStrip(Tail(s)) ELSE s

RECURSIVE RStrip(_)
RStrip(s) ==
    IF s # <<>> /\ IsSpace(s[Len(s)]) THEN RStrip(SubSeq(s, 1, Len(s) - 1)) ELSE s

\* str.strip()
Strip(s) == RStrip(LStrip(s))

\* len(str.split()): the number of maximal runs of non-whitespace
WordCount(s) ==
    Cardinality({i \in 1..Len(s) : ~IsSpace(s[i]) /\ (i = 1 \/ IsSpace(s[i - 1]))})

\* a or b
OrElse(a, b) == IF a # NoText THEN a ELSE b

\* dict helpers: a dict is a function whose DOMAIN is its key set
DictDel(d, k) == [x \in DOMAIN d \ {k} |-> d[x]]
DictPut(d, k, v) == [x \in DOMAIN d \cup {k} |-> IF x = k THEN v ELSE d[x]]
EmptyDict == <<>>

----------------------------------------------------------------------------
(* app/api/server.py: configuration *)

\* RAG_USER_RATE_WINDOW_SECONDS (environment; 3600 by default), in seconds
USER_RATE_WINDOW_SECONDS == 1
\* RAG_CHAT_CACHE_TTL_SECONDS (environment; 1800 by default), in clock units
CHAT_CACHE_TTL == 2
\* RAG_MAX_HISTORY_MESSAGES (environment; 12 by default)
MAX_HISTORY_MESSAGES == 2
MAX_HISTORY_MESSAGES_DEFAULT == 12
\* RAG_HISTORY_ASYNC_THRESHOLD: the default, and a low setting under which the
\* executor path of build_history_context_async is taken
ASYNC_HISTORY_THRESHOLD_DEFAULT == 20
ASYNC_HISTORY_THRESHOLD_LOW == 1
\* len(_chat_cache) > 500 starts the cleanup of _cache_chat_response
CHAT_CACHE_CLEANUP_SIZE == 500
\* len(result.data.strip()) > 10: only substantial responses are cached
MIN_CACHED_RESPONSE_LEN == 10
\* RAG_AGENT_TIMEOUT_SECONDS default and the adaptive tiers of chat_endpoint
BASE_AGENT_TIMEOUT == 120
SIMPLE_AGENT_TIMEOUT == 45
MEDIUM_AGENT_TIMEOUT == 75
SIMPLE_QUERY_WORDS == 5
SIMPLE_HISTORY_LEN == 3
MEDIUM_QUERY_WORDS == 15
MEDIUM_HISTORY_LEN == 8

ANONYMOUS == <<"anonymous">>
DEFAULT_MODEL == <<"gpt-4o-mini">>
TIMEOUT_MESSAGE == <<"Request took too long. Simplify the question or retry later.">>
NO_API_KEY_ERROR == <<"RAG/Agent unavailable: no OPENAI_API_KEY">>

----------------------------------------------------------------------------
(* app/api/server.py: state *)

VARIABLES
    now,                \* time.time()
    USER_RATE_LIMIT,    \* RAG_USER_RATE_LIMIT, read once at import
    ASYNC_HISTORY_THRESHOLD, \* RAG_HISTORY_ASYNC_THRESHOLD, read once at import
    OPENAI_API_KEY,     \* whether the environment holds an API key
    user_rate,          \* {user_id: {count, window_start}}
    conversations,      \* {conversation_id: list}, a list named by its identity
    conversation_meta,  \* {conversation_id: dict}, a dict named by its identity
    lists,              \* the message lists: identity -> sequence of messages
    metas,              \* the meta dicts: identity -> {created, last_activity}
    chat_cache,         \* _chat_cache: {cache_key: (response, timestamp)}
    agent_factory,      \* whether _create_agent / _RAGDeps are set
    req,                \* the handlers in flight, by slot
    started,            \* requests started so far
    lastDone,           \* history: the call that returned last
    lastRate,           \* history: the last call of _enforce_user_rate_limit
    window_calls        \* history: per user, the calls made in the open window

server_vars ==
    <<now, USER_RATE_LIMIT, ASYNC_HISTORY_THRESHOLD, OPENAI_API_KEY, user_rate,
      conversations, conversation_meta, lists, metas, chat_cache, agent_factory,
      req, started, lastDone, lastRate, window_calls>>

Slots == 1..MaxInFlight
\* a new request takes the first free slot
FreeSlot(r) == req[r].pc = "idle" /\ \A x \in 1..(r - 1) : req[x].pc # "idle"
Idle == [pc |-> "idle"]
NoCall == [ep |-> "none"]

----------------------------------------------------------------------------
(* app/api/server.py: the rate limiter *)

\* a number of seconds, in ticks of the clock
Seconds(n) == n * TICKS_PER_SECOND
\* int(x) of a number x >= 0 of seconds that is given in ticks
IntSeconds(ticks) == ticks \div TICKS_PER_SECOND

\* _enforce_user_rate_limit(user_id) at time t with the limit `limit`:
\* ok = FALSE is the HTTPException 429; `rate` is user_rate afterwards
EnforceUserRateLimit(rate, limit, user_id, t) ==
    IF user_id \notin DOMAIN rate
    THEN [ok |-> TRUE, retry_in |-> 0,
          rate |-> DictPut(rate, user_id, [count |-> 1, window_start |-> t])]
    ELSE IF t - rate[user_id].window_start >= Seconds(USER_RATE_WINDOW_SECONDS)
    THEN [ok |-> TRUE, retry_in |-> 0,
          rate |-> DictPut(rate, user_id, [count |-> 1, window_start |-> t])]
    ELSE IF rate[user_id].count >= limit
    THEN [ok |-> FALSE,
          retry_in |-> IntSeconds(Seconds(USER_RATE_WINDOW_SECONDS)
                                     - (t - rate[user_id].window_start)),
          rate |-> rate]
    ELSE [ok |-> TRUE, retry_in |-> 0,
          rate |-> DictPut(rate, user_id,
                     [count |-> rate[user_id].count + 1,
                      window_start |-> rate[user_id].window_start])]

Max(a, b) == IF a >= b THEN a ELSE b
Min(a, b) == IF a <= b THEN a ELSE b

\* _rate_limit_remaining(user_id)
RateLimitRemaining(rate, limit, user_id, t) ==
    IF user_id \notin DOMAIN rate THEN limit
    ELSE IF t - rate[user_id].window_start >= Seconds(USER_RATE_WINDOW_SECONDS) THEN limit
    ELSE Max(0, limit - rate[user_id].count)

----------------------------------------------------------------------------
(* app/api/server.py: the history context *)

\* s[:n] and s[-n:] of Python (s[-0:] is the whole list)
PyHead(s, n) == SubSeq(s, 1, Min(n, Len(s)))
PyTail(s, n) == IF n = 0 THEN s ELSE SubSeq(s, Len(s) - Min(n, Len(s)) + 1, Len(s))

GapMessage(omitted) == [role |-> "system", content |-> <<"[gap]", ToString(omitted)>>]

\* _smart_truncate_history(messages, max_messages)
SmartTruncateHistory(messages, max_messages) ==
    IF Len(messages) <= max_messages THEN messages
    ELSE LET keep_recent == max_messages \div 2
             recent_messages == PyTail(messages, keep_recent)
             keep_initial == max_messages - keep_recent
         IN  IF keep_initial > 0
             THEN PyHead(messages, keep_initial)
                  \o <<GapMessage(Len(messages) - max_messages)>>
                  \o recent_messages
             ELSE recent_messages

\* the content of a message as _format_history strips it (the gap marker is
\* a text without surrounding blanks)
StrippedContent(m) == IF m.role = "system" THEN m.content ELSE Strip(m.content)

RECURSIVE FormatHistory(_)
\* _format_history(relevant): one "User: ..." / "Assistant: ..." line for every
\* message whose stripped content is not empty
FormatHistory(relevant) ==
    IF relevant = <<>> THEN <<>>
    ELSE LET m == Head(relevant)
             line == <<IF m.role = "user" THEN "User" ELSE "Assistant",
                       StrippedContent(m)>>
         IN  IF StrippedContent(m) = <<>> THEN FormatHistory(Tail(relevant))
             ELSE <<line>> \o FormatHistory(Tail(relevant))

\* build_history_context_async(messages, include_last_user=False) up to the
\* choice of the formatting path: the messages to format
RelevantHistoryOf(messages, max_messages) ==
    LET relevant == SmartTruncateHistory(messages, max_messages)
    IN  IF relevant # <<>> /\ relevant[Len(relevant)].role = "user"
        THEN SubSeq(relevant, 1, Len(relevant) - 1)
        ELSE relevant
\* the same under the MAX_HISTORY_MESSAGES of the process
RelevantHistory(messages) == RelevantHistoryOf(messages, MAX_HISTORY_MESSAGES)

\* whether build_history_context_async formats on the executor (suspending)
\* in a process whose MAX_HISTORY_MESSAGES is max_messages
HistoryOffloadedOf(messages, max_messages, threshold) ==
    messages # <<>> /\ Len(RelevantHistoryOf(messages, max_messages)) > threshold
\* the same under the MAX_HISTORY_MESSAGES of the process
HistoryOffloaded(messages, threshold) ==
    HistoryOffloadedOf(messages, MAX_HISTORY_MESSAGES, threshold)

\* the history context once formatted
HistoryContext(messages) ==
    IF messages = <<>> THEN <<>> ELSE FormatHistory(RelevantHistory(messages))

\* the soft trim of the stored history in chat_endpoint
TrimStored(msgs) ==
    IF Len(msgs) > MAX_HISTORY_MESSAGES * 3
    THEN SubSeq(msgs, Len(msgs) - MAX_HISTORY_MESSAGES * 2 + 1, Len(msgs))
    ELSE msgs

----------------------------------------------------------------------------
(* app/api/server.py: the chat response cache *)

\* _get_chat_cache_key: the md5 digest of the "|"-joined request, modelled as
\* the joined text itself (digest collisions aside)
GetChatCacheKey(message, conversation_id, user_id, model) ==
    message \o <<"|">> \o conversation_id \o <<"|">> \o user_id \o <<"|">> \o model

\* a mutation of GetCachedChatResponse: an entry expires one clock unit early
GetCachedChatResponseEarly(cache, cache_key, t) ==
    IF cache_key \in DOMAIN cache
    THEN IF t - cache[cache_key].timestamp < CHAT_CACHE_TTL - 1
         THEN [hit |-> TRUE, response |-> cache[cache_key].response, cache |-> cache]
         ELSE [hit |-> FALSE, response |-> <<>>, cache |-> DictDel(cache, cache_key)]
    ELSE [hit |-> FALSE, response |-> <<>>, cache |-> cache]

\* _get_cached_chat_response(cache_key) at time t: the response (hit) or none,
\* and _chat_cache afterwards
GetCachedChatResponse(cache, cache_key, t) ==
    IF cache_key \in DOMAIN cache
    THEN IF t - cache[cache_key].timestamp < CHAT_CACHE_TTL
         THEN [hit |-> TRUE, response |-> cache[cache_key].response, cache |-> cache]
         ELSE [hit |-> FALSE, response |-> <<>>, cache |-> DictDel(cache, cache_key)]
    ELSE [hit |-> FALSE, response |-> <<>>, cache |-> cache]

\* _cache_chat_response(cache_key, response) at time t
CacheChatResponse(cache, cache_key, response, t) ==
    LET stored == DictPut(cache, cache_key, [response |-> response, timestamp |-> t])
    IN  IF Cardinality(DOMAIN stored) > CHAT_CACHE_CLEANUP_SIZE
        THEN [k \in {x \in DOMAIN stored : ~(t - stored[x].timestamp > CHAT_CACHE_TTL)}
                |-> stored[k]]
        ELSE stored

\* the adaptive agent timeout of chat_endpoint
AgentTimeout(query_words, history_length) ==
    IF query_words <= SIMPLE_QUERY_WORDS /\ history_length <= SIMPLE_HISTORY_LEN
    THEN Min(BASE_AGENT_TIMEOUT, SIMPLE_AGENT_TIMEOUT)
    ELSE IF query_words <= MEDIUM_QUERY_WORDS /\ history_length <= MEDIUM_HISTORY_LEN
    THEN Min(BASE_AGENT_TIMEOUT, MEDIUM_AGENT_TIMEOUT)
    ELSE BASE_AGENT_TIMEOUT

\* the classification of str(run_err) in chat_endpoint
ErrorCode(err) ==
    IF "model_not_found" \in err \/ "does not exist" \in err THEN "MODEL_NOT_FOUND"
    ELSE IF "Rate Limit" \in err THEN "RATE_LIMIT"
    ELSE IF "timeout" \in err THEN "TIMEOUT"
    ELSE "EXECUTION_ERROR"

----------------------------------------------------------------------------
(* app/api/server.py: the responses of chat_endpoint *)

NoError == <<>>

\* the handler returned a ChatResponse / raised an HTTPException / let an
\* exception escape / returned the event stream of chat/stream
Returned(body) == [kind |-> "response", body |-> body]
HttpError(status, retry_in) == [kind |-> "http_error", status |-> status, retry_in |-> retry_in]
Escaped == [kind |-> "exception"]
Streamed(events) == [kind |-> "stream", events |-> events]

\* the ChatResponse of a successful agent run
SuccessResponse(data, conv_id, user_id, history_messages, remaining) ==
    [response |-> data, conversation_id |-> conv_id, error |-> NoError,
     metadata |-> [user_id |-> user_id, history_messages |-> history_messages,
                   rate_limit_remaining |-> remaining, cached |-> FALSE]]

\* the ChatResponse of `except asyncio.TimeoutError`
TimeoutResponse(conv_id, user_id, history_messages, agent_timeout) ==
    [response |-> TIMEOUT_MESSAGE, conversation_id |-> conv_id,
     error |-> <<"TIMEOUT", {"Agent execution timed out"}>>,
     metadata |-> [user_id |-> user_id, history_messages |-> history_messages,
                   timeout_seconds |-> agent_timeout]]

\* the ChatResponse of `except Exception as run_err`
RunErrorResponse(err, conv_id, user_id, history_messages, remaining) ==
    [response |-> <<>>, conversation_id |-> conv_id,
     error |-> <<ErrorCode(err), err>>,
     metadata |-> [user_id |-> user_id, history_messages |-> history_messages,
                   rate_limit_remaining |-> remaining]]

\* the ChatResponse of `except Exception as outer`
InitErrorResponse(conv_id, history_messages) ==
    [response |-> <<>>, conversation_id |-> conv_id,
     error |-> <<"INIT_ERROR", {"agent creation failed"}>>,
     metadata |-> [stage |-> "outer", history_messages |-> history_messages]]

\* the ChatResponse returned when no agent factory can be set up
NoApiKeyResponse(conv_id) ==
    [response |-> <<>>, conversation_id |-> conv_id,
     error |-> NO_API_KEY_ERROR, metadata |-> [stage |-> "init"]]

\* what chat_endpoint does with a cache hit: the cached object itself is
\* updated and returned
MarkCached(response, conv_id, t) ==
    [response EXCEPT
        !.conversation_id = conv_id,
        !.metadata = DictPut(DictPut(response.metadata, "cached", TRUE),
                             "cache_hit_time", t)]

\* `if result.data and len(result.data.strip()) > 10`
IsCacheable(data) == data # <<>> /\ Len(Strip(data)) > MIN_CACHED_RESPONSE_LEN

\* a mutation of AgentRunResult: an exception of the agent run is not caught
AgentRunResultUnhandled(outcome, conv_id, user_id, history_messages, agent_timeout, remaining) ==
    IF outcome.kind = "success"
    THEN Returned(SuccessResponse(outcome.data, conv_id, user_id, history_messages, remaining))
    ELSE IF outcome.kind = "timeout"
    THEN Returned(TimeoutResponse(conv_id, user_id, history_messages, agent_timeout))
    ELSE Escaped

\* what the handler of a finished agent run returns (chat_endpoint, lines
\* 1040-1139); outcome.kind is "success", "timeout" or "raised"
AgentRunResult(outcome, conv_id, user_id, history_messages, agent_timeout, remaining) ==
    IF outcome.kind = "success"
    THEN Returned(SuccessResponse(outcome.data, conv_id, user_id, history_messages, remaining))
    ELSE IF outcome.kind = "timeout"
    THEN Returned(TimeoutResponse(conv_id, user_id, history_messages, agent_timeout))
    ELSE Returned(RunErrorResponse(outcome.err, conv_id, user_id, history_messages, remaining))

\* what the handler returns when _create_agent(...) raises
CreateErrorResult(conv_id, history_messages) ==
    Returned(InitErrorResponse(conv_id, history_messages))

\* the ways an agent run ends: result.data of a successful run, the timeout of
\* wait_for, or an exception (str(run_err) as the set of marker substrings the
\* classification looks for)
AgentOutcomes(Data, Errors) ==
    [kind : {"success"}, data : Data]
        \cup {[kind |-> "timeout"]}
        \cup [kind : {"raised"}, err : Errors]

----------------------------------------------------------------------------
(* app/api/server.py: bookkeeping shared by the handlers *)

\* the identity of a new object: the least one not in use
NewId(used) == CHOOSE i \in 1..(Cardinality(used) + 1) : i \notin used

\* the objects still referenced by the store or by a handler in flight
LiveLists(convs, rq) ==
    {convs[c] : c \in DOMAIN convs} \cup {rq[r].msgs : r \in {x \in Slots : rq[x].pc # "idle"}}
LiveMetas(cmeta, rq) ==
    {cmeta[c] : c \in DOMAIN cmeta} \cup {rq[r].meta : r \in {x \in Slots : rq[x].pc # "idle"}}
Restrict(f, S) == [x \in DOMAIN f \cap S |-> f[x]]

\* the summary of the previous call, kept by the call that follows it
Summary(d) ==
    IF d.ep = "none" THEN NoCall
    ELSE [ep |-> d.ep, cache_key |-> d.cache_key, outcome |-> d.outcome,
          response |-> IF d.result.kind = "response" THEN d.result.body.response
                       ELSE <<>>,
          at |-> d.at]

\* a call returns: its slot is free again and the call is the last one done
Finish(r, call, outcome, result) ==
    /\ req' = [req EXCEPT ![r] = Idle]
    /\ lastDone' = [ep |-> call.ep, cache_key |-> call.cache_key, pred |-> call.pred,
                    outcome |-> outcome, result |-> result, t0 |-> call.t0, at |-> now,
                    user_id |-> call.user_id, rate_checked |-> call.rate_checked]

\* a call suspends at an await
Suspend(r, call, pc) ==
    /\ req' = [req EXCEPT ![r] = [call EXCEPT !.pc = pc]]
    /\ lastDone' = NoCall

ResolveConversation(message, conversation_id, alias) ==
    OrElse(conversation_id, OrElse(alias, <<"conv_">> \o message))

ResolveUser(user_id, sub) == OrElse(user_id, OrElse(sub, ANONYMOUS))

----------------------------------------------------------------------------
(* app/api/server.py: chat_endpoint and chat_stream_endpoint *)

config_vars == <<USER_RATE_LIMIT, ASYNC_HISTORY_THRESHOLD, OPENAI_API_KEY>>
store_vars == <<conversations, conversation_meta, lists, metas>>
rate_vars == <<user_rate, lastRate, window_calls>>

\* agent creation and the start of the agent run, entered with the history
\* context built: chat_endpoint lines 1002-1043, chat_stream_endpoint 1650-1672;
\* stored_len is len(conversations.get(conv_id, [])) at that point
CreateAgent(r, call, create_ok, stored_len) ==
    IF ~agent_factory /\ ~OPENAI_API_KEY
    THEN /\ agent_factory' = agent_factory
         /\ Finish(r, call, "no_api_key",
                   IF call.ep = "chat" THEN Returned(NoApiKeyResponse(call.conv_id))
                   ELSE HttpError(503, 0))
    ELSE /\ agent_factory' = TRUE
         /\ IF create_ok
            THEN Suspend(r, call, "agent_run")
            ELSE Finish(r, call, "create_raised",
                        IF call.ep = "chat"
                        THEN CreateErrorResult(call.conv_id, stored_len)
                        ELSE Escaped)

\* the store after `msgs = conversations.setdefault(...)`, `meta = ...setdefault`
\* and `msgs.append(user message)`; trim is the soft trim of chat_endpoint
AppendUserMessage(conv_id, message, trim) ==
    LET lid == IF conv_id \in DOMAIN conversations THEN conversations[conv_id]
               ELSE NewId(DOMAIN lists)
        mid == IF conv_id \in DOMAIN conversation_meta THEN conversation_meta[conv_id]
               ELSE NewId(DOMAIN metas)
        old == IF conv_id \in DOMAIN conversations THEN lists[lid] ELSE <<>>
        appended == Append(old, [role |-> "user", content |-> message])
    IN  [lid |-> lid, mid |-> mid,
         msgs |-> IF trim THEN TrimStored(appended) ELSE appended,
         conversations |-> DictPut(conversations, conv_id, lid),
         conversation_meta |-> DictPut(conversation_meta, conv_id, mid),
         metas |-> IF conv_id \in DOMAIN conversation_meta THEN metas
                   ELSE DictPut(metas, mid, [created |-> now, last_activity |-> now])]

\* history: where a rate limiter call falls in the user's window, told from
\* the calls made so far (not from user_rate)
PriorWindow(user_id) ==
    IF user_id \notin DOMAIN window_calls THEN "none"
    ELSE IF now - window_calls[user_id].start >= Seconds(USER_RATE_WINDOW_SECONDS)
    THEN "elapsed"
    ELSE "open"

RecordRateCall(user_id, rl) ==
    LET prior == PriorWindow(user_id)
        entry(rate) == IF user_id \in DOMAIN rate THEN rate[user_id] ELSE <<>>
    IN  /\ lastRate' = [user_id |-> user_id, at |-> now, ok |-> rl.ok, prior |-> prior,
                        position |-> IF prior = "open"
                                     THEN window_calls[user_id].calls + 1 ELSE 1,
                        before |-> entry(user_rate), after |-> entry(rl.rate),
                        retry_in |-> rl.retry_in]
        /\ window_calls' =
              IF prior = "open"
              THEN [window_calls EXCEPT ![user_id] =
                       [start |-> @.start, calls |-> @.calls + 1,
                        passes |-> @.passes + (IF rl.ok THEN 1 ELSE 0)]]
              ELSE IF rl.ok
              THEN DictPut(window_calls, user_id, [start |-> now, calls |-> 1, passes |-> 1])
              ELSE window_calls

\* the handler from the rate limit check to its first suspension (or return)
AdmitAndRun(r, call, create_ok, trim) ==
    LET rl == EnforceUserRateLimit(user_rate, USER_RATE_LIMIT, call.user_id, now)
        st == AppendUserMessage(call.conv_id, call.message, trim)
        checked == [call EXCEPT !.rate_checked = TRUE]
        running == [checked EXCEPT !.msgs = st.lid, !.meta = st.mid,
                                   !.history = HistoryContext(st.msgs)]
    IN  /\ RecordRateCall(call.user_id, rl)
        /\ IF ~rl.ok
           THEN /\ Finish(r, checked, "rate_limited", HttpError(429, rl.retry_in))
                /\ UNCHANGED <<user_rate, store_vars, agent_factory>>
           ELSE /\ user_rate' = rl.rate
                /\ conversations' = st.conversations
                /\ conversation_meta' = st.conversation_meta
                /\ IF HistoryOffloaded(st.msgs, ASYNC_HISTORY_THRESHOLD)
                   THEN /\ Suspend(r, running, "history")
                        /\ agent_factory' = agent_factory
                   ELSE CreateAgent(r, running, create_ok, Len(st.msgs))
                /\ lists' = Restrict(DictPut(lists, st.lid, st.msgs),
                                     LiveLists(conversations', req'))
                /\ metas' = Restrict(st.metas, LiveMetas(conversation_meta', req'))

NewCall(ep, message, conversation_id, alias, user_id, sub, model) ==
    LET conv_id == ResolveConversation(message, conversation_id, alias)
        user == ResolveUser(user_id, sub)
    IN  [pc |-> "start", ep |-> ep, message |-> message, conv_id |-> conv_id,
         user_id |-> user,
         cache_key |-> GetChatCacheKey(message, conv_id, user, OrElse(model, DEFAULT_MODEL)),
         msgs |-> 0, meta |-> 0, history |-> <<>>, t0 |-> now,
         rate_checked |-> FALSE, pred |-> Summary(lastDone)]

\* a mutation of ServeCached: the rate limit is enforced before the cached
\* response is returned
ServeCachedCounted(r, call, response) ==
    /\ chat_cache' = [chat_cache EXCEPT ![call.cache_key].response = response]
    /\ Finish(r, call, "cache_hit", Returned(response))
    /\ user_rate' = EnforceUserRateLimit(user_rate, USER_RATE_LIMIT, call.user_id, now).rate
    /\ UNCHANGED <<lastRate, window_calls, store_vars, agent_factory>>

\* the cache hit of chat_endpoint (lines 966-973): the cached response, marked
\* as such in place, is returned before the rate limit and the store are
\* touched
ServeCached(r, call, response) ==
    /\ chat_cache' = [chat_cache EXCEPT ![call.cache_key].response = response]
    /\ Finish(r, call, "cache_hit", Returned(response))
    /\ UNCHANGED <<rate_vars, store_vars, agent_factory>>

\* POST /chat up to its first suspension: validation, cache lookup, rate limit,
\* user message, history, agent creation
ChatStart(r, message, conversation_id, alias, user_id, sub, model, create_ok) ==
    /\ FreeSlot(r)
    /\ started' = started + 1
    /\ LET call == NewCall("chat", message, conversation_id, alias, user_id, sub, model)
           look == GetCachedChatResponse(chat_cache, call.cache_key, now)
       IN  IF message = NoText \/ Strip(message) = NoText
           THEN /\ Finish(r, call, "invalid", HttpError(400, 0))
                /\ UNCHANGED <<rate_vars, store_vars, chat_cache, agent_factory>>
           ELSE IF look.hit
           THEN ServeCached(r, call, MarkCached(look.response, call.conv_id, now))
           ELSE /\ chat_cache' = look.cache
                /\ AdmitAndRun(r, call, create_ok, TRUE)
    /\ UNCHANGED <<now, config_vars>>

\* POST /chat/stream up to its first suspension
StreamStart(r, message, conversation_id, alias, user_id, sub, model, create_ok) ==
    /\ FreeSlot(r)
    /\ started' = started + 1
    /\ LET call == NewCall("stream", message, conversation_id, alias, user_id, sub, model)
       IN  IF message = NoText \/ Strip(message) = NoText
           THEN /\ Finish(r, call, "invalid", HttpError(400, 0))
                /\ UNCHANGED <<rate_vars, store_vars, agent_factory>>
           ELSE AdmitAndRun(r, call, create_ok, FALSE)
    /\ UNCHANGED <<now, config_vars, chat_cache>>

\* the executor returns the formatted history: the handler goes on to create
\* the agent
HistoryDone(r, create_ok) ==
    /\ req[r].pc = "history"
    /\ CreateAgent(r, req[r], create_ok,
                   IF req[r].conv_id \in DOMAIN conversations
                   THEN Len(lists[conversations[req[r].conv_id]]) ELSE 0)
    /\ lists' = Restrict(lists, LiveLists(conversations, req'))
    /\ metas' = Restrict(metas, LiveMetas(conversation_meta, req'))
    /\ UNCHANGED <<now, config_vars, rate_vars, conversations, conversation_meta,
                   chat_cache, started>>

\* the store after `msgs.append(assistant message)` and
\* `meta["last_activity"] = time.time()` on the objects the handler holds
AppendAssistant(call, data) ==
    [lists |-> [lists EXCEPT ![call.msgs] =
                   Append(@, [role |-> "assistant", content |-> data])],
     metas |-> [metas EXCEPT ![call.meta].last_activity = now]]

\* a mutation of CacheAfterRun: whatever ChatResponse the handler returns is
\* cached
CacheAnyResponse(cache, outcome, cache_key, result, t) ==
    IF result.kind = "response"
    THEN CacheChatResponse(cache, cache_key, result.body, t)
    ELSE cache

\* the chat cache once the agent run of chat_endpoint has ended: only the
\* success path reaches `_cache_chat_response` (lines 1075-1077), the handlers
\* of TimeoutError and Exception return without it
CacheAfterRun(cache, outcome, cache_key, result, t) ==
    IF outcome.kind = "success" /\ IsCacheable(outcome.data)
    THEN CacheChatResponse(cache, cache_key, result.body, t)
    ELSE cache

\* `await asyncio.wait_for(agent.run(...))` of chat_endpoint ends
ChatAgentDone(r, outcome) ==
    /\ req[r].pc = "agent_run"
    /\ req[r].ep = "chat"
    /\ LET call == req[r]
           st == IF outcome.kind = "success" THEN AppendAssistant(call, outcome.data)
                 ELSE [lists |-> lists, metas |-> metas]
           history_length == Len(lists[call.msgs])
           result == AgentRunResult(outcome, call.conv_id, call.user_id,
                         Len(st.lists[call.msgs]),
                         AgentTimeout(WordCount(call.message), history_length),
                         RateLimitRemaining(user_rate, USER_RATE_LIMIT, call.user_id, now))
       IN  /\ Finish(r, call, outcome.kind, result)
           /\ chat_cache' = CacheAfterRun(chat_cache, outcome, call.cache_key, result, now)
           /\ lists' = Restrict(st.lists, LiveLists(conversations, req'))
           /\ metas' = Restrict(st.metas, LiveMetas(conversation_meta, req'))
    /\ UNCHANGED <<now, config_vars, rate_vars, conversations, conversation_meta,
                   agent_factory, started>>

\* the agent run inside event_generator of chat_stream_endpoint ends
StreamAgentDone(r, outcome) ==
    /\ req[r].pc = "agent_run"
    /\ req[r].ep = "stream"
    /\ LET call == req[r]
           st == IF outcome.kind = "success" THEN AppendAssistant(call, outcome.data)
                 ELSE [lists |-> lists, metas |-> metas]
       IN  /\ Finish(r, call, outcome.kind,
                     Streamed(<<"started",
                                IF outcome.kind = "success" THEN "complete"
                                ELSE IF outcome.kind = "timeout" THEN "timeout"
                                ELSE "error",
                                "end">>))
           /\ lists' = Restrict(st.lists, LiveLists(conversations, req'))
           /\ metas' = Restrict(st.metas, LiveMetas(conversation_meta, req'))
    /\ UNCHANGED <<now, config_vars, rate_vars, conversations, conversation_meta,
                   chat_cache, agent_factory, started>>

\* time passes
Tick ==
    /\ now < MaxTime
    /\ now' = now + 1
    /\ UNCHANGED <<config_vars, rate_vars, store_vars, chat_cache, agent_factory, req,
                   started, lastDone>>

\* the process after import of app/api/server.py
ServerStart ==
    /\ now = 0
    /\ user_rate = EmptyDict
    /\ conversations = EmptyDict
    /\ conversation_meta = EmptyDict
    /\ lists = EmptyDict
    /\ metas = EmptyDict
    /\ chat_cache = EmptyDict
    /\ agent_factory = FALSE
    /\ req = [r \in Slots |-> Idle]
    /\ started = 0
    /\ lastDone = NoCall
    /\ lastRate = NoCall
    /\ window_calls = EmptyDict

----------------------------------------------------------------------------
(* app/agent/rag_agent.py: the retrieval cache *)

\* RAG_CACHE_TTL_SECONDS (environment; 300 by default), in clock units
RAG_CACHE_TTL == 2
\* _cache_result drops expired entries once the cache holds more than this many
\* (1000 in the code)
RAG_CACHE_CLEANUP_SIZE == 1

\* _get_cache_key: the md5 digest of the query, modelled as the query text
\* itself (digest collisions aside)
GetCacheKey(search_query) == search_query

\* _get_cached_result(search_query) at time t: the result (hit) or None, and
\* _rag_cache afterwards
GetCachedResult(cache, search_query, t) ==
    LET cache_key == GetCacheKey(search_query)
    IN  IF cache_key \in DOMAIN cache
        THEN IF t - cache[cache_key].timestamp < RAG_CACHE_TTL
             THEN [hit |-> TRUE, result |-> cache[cache_key].result, cache |-> cache]
             ELSE [hit |-> FALSE, result |-> NoText, cache |-> DictDel(cache, cache_key)]
        ELSE [hit |-> FALSE, result |-> NoText, cache |-> cache]

\* a mutation of CacheResult: nothing is stored
CacheResultSkipped(cache, search_query, result, t) == cache

\* _cache_result(search_query, result) at time t: _rag_cache afterwards
CacheResult(cache, search_query, result, t) ==
    LET stored == DictPut(cache, GetCacheKey(search_query),
                          [result |-> result, timestamp |-> t])
        expired_keys == {k \in DOMAIN stored : t - stored[k].timestamp > RAG_CACHE_TTL}
    IN  IF Cardinality(DOMAIN stored) > RAG_CACHE_CLEANUP_SIZE
        THEN [k \in DOMAIN stored \ expired_keys |-> stored[k]]
        ELSE stored

----------------------------------------------------------------------------
(* app/agent/rag_agent.py: the retrieve tool *)

\* query lengths (in words) up to which the fast and the medium tier apply
RETRIEVE_FAST_WORDS == 3
RETRIEVE_MEDIUM_WORDS == 7
\* RAG_RETRIEVE_TIMEOUT_FAST / _MEDIUM / _SECONDS (environment defaults) and the
\* timeout of the fallback attempt
RAG_RETRIEVE_TIMEOUT_FAST == 10
RAG_RETRIEVE_TIMEOUT_MEDIUM == 30
RAG_RETRIEVE_TIMEOUT_SECONDS == 60
FALLBACK_TIMEOUT == 15

\* what rag.aquery hands back: a text, or None
StrValue(text) == [kind |-> "str", text |-> text]
NoneValue == [kind |-> "none", text |-> NoText]
\* str(result)
PyStr(v) == IF v.kind = "none" THEN <<"N", "o", "n", "e">> ELSE v.text

\* how an invocation of the tool ends: with a value handed to the agent, or
\* with an exception leaving the tool
ToolReturned(v) == [kind |-> "value", value |-> v]
ToolRaised(what) == [kind |-> "raised", value |-> StrValue(what)]

\* retrieve_timeout and search_mode of the primary attempt
RetrieveTier(search_query) ==
    LET query_length == WordCount(search_query)
    IN  IF query_length <= RETRIEVE_FAST_WORDS
        THEN [retrieve_timeout |-> RAG_RETRIEVE_TIMEOUT_FAST, search_mode |-> "local"]
        ELSE IF query_length <= RETRIEVE_MEDIUM_WORDS
        THEN [retrieve_timeout |-> RAG_RETRIEVE_TIMEOUT_MEDIUM, search_mode |-> "hybrid"]
        ELSE [retrieve_timeout |-> RAG_RETRIEVE_TIMEOUT_SECONDS, search_mode |-> "mix"]

\* fallback_msg
FallbackMsg(search_query) ==
    <<"took too long: '">> \o search_query \o <<"', simplify the query">>

\* what the tool does with an exception e caught by its outer handler
RetrieveError(e) == ToolReturned(StrValue(<<"Error retrieving documents: ">> \o e))

\* a mutation of FallbackFailed: the failure of the fallback leaves the tool
FallbackFailedRaises(search_query) == ToolRaised(FallbackMsg(search_query))

\* what the tool does when the fallback attempt fails as well
FallbackFailed(search_query) == ToolReturned(StrValue(FallbackMsg(search_query)))

\* what the tool does with the result of a successful attempt
RetrieveSucceeded(result) == ToolReturned(result)

VARIABLES
    rag_cache,          \* _rag_cache: {cache_key: (result, timestamp)}
    ret,                \* the invocations of retrieve in flight, by slot
    retrieves,          \* invocations started so far
    lastRet             \* the invocation that ended last (history)

rag_vars == <<rag_cache, ret, retrieves, lastRet>>

NoRetrieve == [query |-> NoText, outcome |-> "none", both_failed |-> FALSE, at |-> 0]

\* both attempts of the invocation failed
BothFailed(d) == d.primary = "timeout" /\ d.fallback \in {"timeout", "error"}

RetSummary(d) ==
    IF d.outcome = "none" THEN NoRetrieve
    ELSE [query |-> d.query, outcome |-> d.outcome, both_failed |-> BothFailed(d),
          at |-> d.at]

FreeRetSlot(r) == ret[r].pc = "idle" /\ \A x \in 1..(r - 1) : ret[x].pc # "idle"

\* the invocation in slot r ends
RetrieveEnds(r, inv, outcome, result) ==
    /\ ret' = [ret EXCEPT ![r] = Idle]
    /\ lastRet' = [query |-> inv.query, pred |-> inv.pred, outcome |-> outcome,
                   attempts |-> inv.attempts, primary |-> inv.primary,
                   fallback |-> inv.fallback, result |-> result,
                   cache_written |-> (rag_cache' # rag_cache),
                   t0 |-> inv.t0, at |-> now]

\* retrieve(search_query) up to its first retrieval attempt: the cache lookup,
\* rag_manager.get_rag() (which may raise) and the choice of the tier
RetrieveStart(r, search_query, rag_ok) ==
    /\ FreeRetSlot(r)
    /\ retrieves' = retrieves + 1
    /\ LET got == GetCachedResult(rag_cache, search_query, now)
           tier == RetrieveTier(search_query)
           inv == [pc |-> "primary", query |-> search_query, attempts |-> <<>>,
                   primary |-> "none", fallback |-> "none", retrieve_timeout |-> 0,
                   t0 |-> now, pred |-> RetSummary(lastRet)]
       IN  /\ rag_cache' = got.cache
           /\ IF got.hit
              THEN RetrieveEnds(r, inv, "cache_hit", ToolReturned(StrValue(got.result)))
              ELSE IF ~rag_ok
              THEN RetrieveEnds(r, inv, "get_rag_raised", RetrieveError(<<"no rag">>))
              ELSE /\ ret' = [ret EXCEPT ![r] =
                                 [inv EXCEPT !.attempts = <<tier.search_mode>>,
                                             !.retrieve_timeout = tier.retrieve_timeout]]
                   /\ UNCHANGED lastRet

\* how an attempt can end
AttemptOutcomes(Values, Errors) ==
    {[kind |-> "success", value |-> v, err |-> NoText] : v \in Values}
        \cup {[kind |-> "timeout", value |-> NoneValue, err |-> NoText]}
        \cup {[kind |-> "error", value |-> NoneValue, err |-> e] : e \in Errors}

\* a mutation of IsTimeoutError: every failure starts the fallback
AnyFailureIsTimeout(outcome) == outcome.kind # "success"

\* `except asyncio.TimeoutError` around the primary attempt
IsTimeoutError(outcome) == outcome.kind = "timeout"

\* the primary attempt ends: its result is cached and returned, a timeout
\* starts the fallback attempt in 'local' mode, any other exception reaches the
\* outer handler
PrimaryDone(r, outcome) ==
    /\ ret[r].pc = "primary"
    /\ LET inv == [ret[r] EXCEPT !.primary = outcome.kind]
       IN  IF outcome.kind = "success"
           THEN /\ rag_cache' = CacheResult(rag_cache, inv.query, PyStr(outcome.value), now)
                /\ RetrieveEnds(r, inv, "primary_ok", RetrieveSucceeded(outcome.value))
           ELSE IF IsTimeoutError(outcome)
           THEN /\ ret' = [ret EXCEPT ![r] =
                             [inv EXCEPT !.pc = "fallback",
                                         !.attempts = Append(@, "local"),
                                         !.retrieve_timeout = FALLBACK_TIMEOUT]]
                /\ UNCHANGED <<rag_cache, lastRet>>
           ELSE /\ rag_cache' = rag_cache
                /\ RetrieveEnds(r, inv, "primary_error", RetrieveError(outcome.err))
    /\ UNCHANGED retrieves

\* the fallback attempt ends: its result is cached and returned, any failure
\* caches and returns fallback_msg
FallbackDone(r, outcome) ==
    /\ ret[r].pc = "fallback"
    /\ LET inv == [ret[r] EXCEPT !.fallback = outcome.kind]
       IN  IF outcome.kind = "success"
           THEN /\ rag_cache' = CacheResult(rag_cache, inv.query, PyStr(outcome.value), now)
                /\ RetrieveEnds(r, inv, "fallback_ok", RetrieveSucceeded(outcome.value))
           ELSE /\ rag_cache' = CacheResult(rag_cache, inv.query, FallbackMsg(inv.query), now)
                /\ RetrieveEnds(r, inv, "fallback_failed", FallbackFailed(inv.query))
    /\ UNCHANGED retrieves

\* the agent run around the tool is cancelled (the timeout of chat_endpoint)
\* while an attempt is awaited: CancelledError leaves the tool
RetrieveCancelled(r) ==
    /\ ret[r].pc \in {"primary", "fallback"}
    /\ rag_cache' = rag_cache
    /\ RetrieveEnds(r, ret[r], "cancelled", ToolRaised(<<"CancelledError">>))
    /\ UNCHANGED retrieves

\* the module after import
RagStart ==
    /\ rag_cache = EmptyDict
    /\ ret = [r \in Slots |-> Idle]
    /\ retrieves = 0
    /\ lastRet = NoRetrieve

----------------------------------------------------------------------------
(* Insertion-ordered dicts: a sequence of [key, value] in insertion order *)

OdKeys(d) == {d[i].key : i \in 1..Len(d)}
OdIndex(d, k) == CHOOSE i \in 1..Len(d) : d[i].key = k
OdGet(d, k) == d[OdIndex(d, k)].value
\* a mutation of OdPut: dict.setdefault, a key already present keeps its value
OdPutKeepsOld(d, k, v) ==
    IF k \in OdKeys(d) THEN d
    ELSE Append(d, [key |-> k, value |-> v])
\* d[k] = v: a key already present keeps its place
OdPut(d, k, v) ==
    IF k \in OdKeys(d) THEN [d EXCEPT ![OdIndex(d, k)].value = v]
    ELSE Append(d, [key |-> k, value |-> v])
OdDelAll(d, ks) == SelectSeq(d, LAMBDA e : e.key \notin ks)
OdDel(d, k) == OdDelAll(d, {k})

----------------------------------------------------------------------------
(* app/core/performance.py: PerformanceOptimizer *)

VARIABLES
    cache_ttl,          \* self.cache_ttl
    max_cache_size,     \* self.max_cache_size
    result_cache,       \* self._result_cache: {key: (result, timestamp)}, ordered
    metrics             \* self._metrics (the three counters)

perf_vars == <<cache_ttl, max_cache_size, result_cache, metrics>>

\* a mutation of PerfGetCached: an entry is still served at timestamp + ttl
PerfGetCachedInclusive(cache, key, ttl, t) ==
    IF key \in OdKeys(cache)
    THEN IF t - OdGet(cache, key).timestamp <= ttl
         THEN [hit |-> TRUE, result |-> OdGet(cache, key).result, cache |-> cache]
         ELSE [hit |-> FALSE, result |-> NoText, cache |-> OdDel(cache, key)]
    ELSE [hit |-> FALSE, result |-> NoText, cache |-> cache]

\* get_cached(key) at time t: the result (hit) or None, and _result_cache
\* afterwards
PerfGetCached(cache, key, ttl, t) ==
    IF key \in OdKeys(cache)
    THEN IF t - OdGet(cache, key).timestamp < ttl
         THEN [hit |-> TRUE, result |-> OdGet(cache, key).result, cache |-> cache]
         ELSE [hit |-> FALSE, result |-> NoText, cache |-> OdDel(cache, key)]
    ELSE [hit |-> FALSE, result |-> NoText, cache |-> cache]

\* _cleanup_cache() at time t: the first half of the expired keys is removed
CleanupCache(cache, ttl, t) ==
    LET expired == SelectSeq(cache, LAMBDA e : t - e.value.timestamp > ttl)
        removed == {expired[i].key : i \in 1..(Len(expired) \div 2)}
    IN  OdDelAll(cache, removed)

\* set_cached(key, result) at time t
PerfSetCached(cache, key, result, ttl, max_size, t) ==
    LET stored == OdPut(cache, key, [result |-> result, timestamp |-> t])
    IN  IF Len(stored) > max_size THEN CleanupCache(stored, ttl, t) ELSE stored

\* a fresh PerformanceOptimizer(cache_ttl, max_cache_size)
PerfStart(ttl, max_size) ==
    /\ cache_ttl = ttl
    /\ max_cache_size = max_size
    /\ result_cache = <<>>
    /\ metrics = [cache_hits |-> 0, cache_misses |-> 0, total_requests |-> 0]

----------------------------------------------------------------------------
(* Calls of the lookup and store functions of the three timestamped caches *)

VARIABLES
    cache_calls,        \* calls made so far
    lastLookup          \* the lookup made last (history)

call_vars == <<cache_calls, lastLookup>>

NoLookup == [cache |-> "none"]

\* what a lookup found in the cache before it ran, and what it left behind
Looked(cache, had, stored, ttl, hit, value, left) ==
    [cache |-> cache, had |-> had, stored |-> stored, ttl |-> ttl, at |-> now,
     hit |-> hit, value |-> value, left |-> left]
Absent == [present |-> FALSE, value |-> NoText, timestamp |-> 0]
Present(value, timestamp) == [present |-> TRUE, value |-> value, timestamp |-> timestamp]

ChatEntry(cache, k) ==
    IF k \in DOMAIN cache THEN Present(cache[k].response, cache[k].timestamp) ELSE Absent
RagEntry(cache, k) ==
    IF k \in DOMAIN cache THEN Present(cache[k].result, cache[k].timestamp) ELSE Absent
PerfEntry(cache, k) ==
    IF k \in OdKeys(cache) THEN Present(OdGet(cache, k).result, OdGet(cache, k).timestamp)
    ELSE Absent

\* _get_cached_chat_response(cache_key)
ChatCacheLookup(cache_key) ==
    LET got == GetCachedChatResponse(chat_cache, cache_key, now)
    IN  /\ chat_cache' = got.cache
        /\ lastLookup' = Looked("chat", cache_key, ChatEntry(chat_cache, cache_key),
                                CHAT_CACHE_TTL, got.hit, got.response,
                                ChatEntry(got.cache, cache_key))
        /\ cache_calls' = cache_calls + 1
        /\ UNCHANGED <<now, config_vars, rate_vars, store_vars, agent_factory, req,
                       started, lastDone>>

\* _cache_chat_response(cache_key, response)
ChatCacheStore(cache_key, response) ==
    /\ chat_cache' = CacheChatResponse(chat_cache, cache_key, response, now)
    /\ cache_calls' = cache_calls + 1
    /\ UNCHANGED <<now, config_vars, rate_vars, store_vars, agent_factory, req,
                   started, lastDone, lastLookup>>

\* _get_cached_result(search_query)
RagCacheLookup(search_query) ==
    LET got == GetCachedResult(rag_cache, search_query, now)
        k == GetCacheKey(search_query)
    IN  /\ rag_cache' = got.cache
        /\ lastLookup' = Looked("rag", k, RagEntry(rag_cache, k), RAG_CACHE_TTL,
                                got.hit, got.result, RagEntry(got.cache, k))
        /\ cache_calls' = cache_calls + 1
        /\ UNCHANGED <<ret, retrieves, lastRet>>

\* _cache_result(search_query, result)
RagCacheStore(search_query, result) ==
    /\ rag_cache' = CacheResult(rag_cache, search_query, result, now)
    /\ cache_calls' = cache_calls + 1
    /\ UNCHANGED <<ret, retrieves, lastRet, lastLookup>>

\* PerformanceOptimizer.get_cached(key)
PerfLookup(key) ==
    LET got == PerfGetCached(result_cache, key, cache_ttl, now)
    IN  /\ result_cache' = got.cache
        /\ metrics' = [metrics EXCEPT
                          !.total_requests = @ + 1,
                          !.cache_hits = IF got.hit THEN @ + 1 ELSE @,
                          !.cache_misses = IF got.hit THEN @ ELSE @ + 1]
        /\ lastLookup' = Looked("perf", key, PerfEntry(result_cache, key), cache_ttl,
                                got.hit, got.result, PerfEntry(got.cache, key))
        /\ cache_calls' = cache_calls + 1
        /\ UNCHANGED <<cache_ttl, max_cache_size>>

\* PerformanceOptimizer.set_cached(key, result)
PerfStore(key, result) ==
    /\ result_cache' = PerfSetCached(result_cache, key, result, cache_ttl,
                                     max_cache_size, now)
    /\ cache_calls' = cache_calls + 1
    /\ UNCHANGED <<cache_ttl, max_cache_size, metrics, lastLookup>>

CallsStart ==
    /\ cache_calls = 0
    /\ lastLookup = NoLookup

----------------------------------------------------------------------------
(* app/core/chat_cache.py: texts *)

\* str.lower() on the letters the inputs use
LowerChar(c) == CASE c = "G" -> "g" [] c = "X" -> "x" [] OTHER -> c
Lower(s) == [i \in 1..Len(s) |-> LowerChar(s[i])]
\* str.replace('\n', ' ')
ReplaceNewlines(s) == [i \in 1..Len(s) |-> IF s[i] = "\n" THEN " " ELSE s[i]]

\* _normalize_query (of IntelligentChatCache and of SemanticCache alike)
NormalizeQuery(query) == ReplaceNewlines(Strip(Lower(query)))

\* part in text
Contains(text, part) ==
    \E i \in 0..(Len(text) - Len(part)) : SubSeq(text, i + 1, i + Len(part)) = part

\* _get_query_hash: the digest of "normalized|context", modelled as that text
\* behind a tag no query holds (digest collisions aside)
GetQueryHash(query, context) == <<"#">> \o NormalizeQuery(query) \o <<"|">> \o context

----------------------------------------------------------------------------
(* app/core/chat_cache.py: the TF-IDF vectors of SemanticCache *)

\* similarity_threshold, in hundredths
SIMILARITY_THRESHOLD == 85
\* add_to_cache refits on the new query and the last this many entries
\* (100 in the code)
REFIT_WINDOW == 1
\* add_to_cache keeps this many entries (500 in the code)
SEMANTIC_CACHE_SIZE == 3
\* the token pattern of the vectorizer keeps words of at least this length
MIN_TOKEN_LEN == 2

IsWordChar(c) == c \notin {" ", "\n", "|", "?", "#"}

\* the end of the word that starts at i
RECURSIVE WordEnd(_, _)
WordEnd(s, i) == IF i < Len(s) /\ IsWordChar(s[i + 1]) THEN WordEnd(s, i + 1) ELSE i

\* the words of s from position i on
RECURSIVE WordsFrom(_, _)
WordsFrom(s, i) ==
    IF i > Len(s) THEN <<>>
    ELSE IF ~IsWordChar(s[i]) THEN WordsFrom(s, i + 1)
    ELSE <<SubSeq(s, i, WordEnd(s, i))>> \o WordsFrom(s, WordEnd(s, i) + 1)

\* the tokens the vectorizer extracts from a text
Tokens(s) == SelectSeq(WordsFrom(Lower(s), 1), LAMBDA w : Len(w) >= MIN_TOKEN_LEN)

\* the term counts of a query: its tokens and the pairs of adjacent tokens
\* (ngram_range=(1, 2))
QueryRow(query) ==
    LET toks == Tokens(query)
        pairs == IF Len(toks) < 2 THEN <<>>
                 ELSE [i \in 1..(Len(toks) - 1) |-> <<toks[i], toks[i + 1]>>]
        grams == [i \in 1..Len(toks) |-> <<toks[i]>>] \o pairs
        terms == {grams[i] : i \in 1..Len(grams)}
    IN  [t \in terms |-> Cardinality({i \in 1..Len(grams) : grams[i] = t})]

\* the term counts of a query_hash: a digest is one token
HashRow(query_hash) == [t \in {<<query_hash>>} |-> 1]

RECURSIVE SumProd(_, _, _)
SumProd(S, a, b) ==
    IF S = {} THEN 0
    ELSE LET t == CHOOSE x \in S : TRUE
         IN  a[t] * b[t] + SumProd(S \ {t}, a, b)

Dot(a, b) == SumProd(DOMAIN a \cap DOMAIN b, a, b)

\* the squared cosine of two rows as a fraction; the terms of one query occur in
\* no other document of the fit, so they all carry the same idf weight
Cosine2(a, b) ==
    IF Dot(a, a) = 0 \/ Dot(b, b) = 0 THEN [num |-> 0, den |-> 1]
    ELSE [num |-> Dot(a, b) * Dot(a, b), den |-> Dot(a, a) * Dot(b, b)]

FracLess(x, y) == x.num * y.den < y.num * x.den
ReachesThreshold(x) ==
    100 * 100 * x.num >= SIMILARITY_THRESHOLD * SIMILARITY_THRESHOLD * x.den

\* vectorizer.transform([query]): the query's counts of the fitted terms
Transform(query, query_vectors) ==
    LET vocabulary == UNION {DOMAIN query_vectors[i] : i \in 1..Len(query_vectors)}
        row == QueryRow(query)
    IN  [t \in DOMAIN row \cap vocabulary |-> row[t]]

\* s[-n:] of a list (n > 0)
LastN(s, n) == IF Len(s) <= n THEN s ELSE SubSeq(s, Len(s) - n + 1, Len(s))

----------------------------------------------------------------------------
(* app/core/chat_cache.py: SemanticCache and IntelligentChatCache *)

\* max_exact_cache (1000 in the code)
MAX_EXACT_CACHE == 1
\* popular_keywords, in the order of the code's list ("золотая виза",
\* "инвестиционная виза", "dubai" stand for the ten)
POPULAR_KEYWORDS == << <<"g", "v">>, <<"i", "v">>, <<"d", "u">> >>
\* the patterns _load_popular_cache preloads
PRELOADED_PATTERNS == << <<"g", "v">>, <<"i", "v">> >>

VARIABLES
    entries,            \* the CachedResponse objects, by identity
    exact_cache,        \* self.exact_cache: {query_hash: object}, ordered
    popular_cache,      \* self.popular_cache: {pattern: object}, ordered
    cached_responses,   \* semantic_cache.cached_responses: list of objects
    query_vectors,      \* semantic_cache.query_vectors: list of rows
    is_fitted,          \* semantic_cache.is_fitted
    stats,              \* self.stats
    intel_calls,        \* calls made so far
    usage_seen,         \* per query_hash, the entry and the usage_count its last hit
                        \* returned (history)
    stored_hashes,      \* the query_hash of every cache_response call since the
                        \* cache was created or cleared (history)
    lastCall            \* the call made last (history)

intel_vars == <<entries, exact_cache, popular_cache, cached_responses, query_vectors,
                is_fitted, stats, intel_calls, usage_seen, stored_hashes, lastCall>>

NoEmbedding == [set |-> FALSE, row |-> <<>>]

\* CachedResponse(...)
CachedResponse(response, sources, timestamp, query_hash, conversation_context) ==
    [response |-> response, sources |-> sources, timestamp |-> timestamp,
     query_hash |-> query_hash, embedding |-> NoEmbedding, usage_count |-> 0,
     conversation_context |-> conversation_context]

ZeroStats == [exact_hits |-> 0, semantic_hits |-> 0, misses |-> 0, total_requests |-> 0]

\* the objects still referenced by a tier
LiveEntries(exact, popular, responses) ==
    {exact[i].value : i \in 1..Len(exact)}
        \cup {popular[i].value : i \in 1..Len(popular)}
        \cup {responses[i] : i \in 1..Len(responses)}

\* a mutation of OldestKey: the last key among those of the greatest timestamp
NewestKey(exact, objs) ==
    LET greatest(i) == \A j \in 1..Len(exact) :
                          objs[exact[i].value].timestamp >= objs[exact[j].value].timestamp
        last == CHOOSE i \in 1..Len(exact) :
                   greatest(i) /\ \A j \in (i + 1)..Len(exact) : ~greatest(j)
    IN  exact[last].key

\* min(exact_cache.keys(), key=timestamp): the first key in insertion order
\* among those of the least timestamp
OldestKey(exact, objs) ==
    LET least(i) == \A j \in 1..Len(exact) :
                       objs[exact[i].value].timestamp <= objs[exact[j].value].timestamp
        first == CHOOSE i \in 1..Len(exact) :
                    least(i) /\ \A j \in 1..(i - 1) : ~least(j)
    IN  exact[first].key

\* a mutation of AddToCache: the error of fit_transform is not caught
AddToCacheUnhandled(query, id, responses, vectors, fitted, objs) ==
    LET normalized_query == NormalizeQuery(query)
        window == LastN(responses, REFIT_WINDOW)
        rows == <<QueryRow(normalized_query)>>
                    \o [i \in 1..Len(window) |->
                          HashRow(NormalizeQuery(objs[window[i]].query_hash))]
        vocabulary == UNION {DOMAIN rows[i] : i \in 1..Len(rows)}
        appended == Append(responses, id)
    IN  IF vocabulary = {}
        THEN \* fit_transform raises on an empty vocabulary
             [cached_responses |-> responses, query_vectors |-> vectors,
              is_fitted |-> fitted, entries |-> objs, raised |-> TRUE]
        ELSE [cached_responses |-> LastN(appended, SEMANTIC_CACHE_SIZE),
              query_vectors |-> IF Len(appended) > SEMANTIC_CACHE_SIZE
                                THEN LastN(rows, SEMANTIC_CACHE_SIZE) ELSE rows,
              is_fitted |-> TRUE,
              entries |-> [objs EXCEPT ![id].embedding = [set |-> TRUE, row |-> rows[1]]],
              raised |-> FALSE]

\* SemanticCache.add_to_cache(query, response) for the object id: the semantic
\* tier and the objects afterwards
AddToCache(query, id, responses, vectors, fitted, objs) ==
    LET normalized_query == NormalizeQuery(query)
        window == LastN(responses, REFIT_WINDOW)
        rows == <<QueryRow(normalized_query)>>
                    \o [i \in 1..Len(window) |->
                          HashRow(NormalizeQuery(objs[window[i]].query_hash))]
        vocabulary == UNION {DOMAIN rows[i] : i \in 1..Len(rows)}
        appended == Append(responses, id)
    IN  IF vocabulary = {}
        THEN \* fit_transform raises on an empty vocabulary; the error is printed
             [cached_responses |-> responses, query_vectors |-> vectors,
              is_fitted |-> fitted, entries |-> objs, raised |-> FALSE]
        ELSE [cached_responses |-> LastN(appended, SEMANTIC_CACHE_SIZE),
              query_vectors |-> IF Len(appended) > SEMANTIC_CACHE_SIZE
                                THEN LastN(rows, SEMANTIC_CACHE_SIZE) ELSE rows,
              is_fitted |-> TRUE,
              entries |-> [objs EXCEPT ![id].embedding = [set |-> TRUE, row |-> rows[1]]],
              raised |-> FALSE]

\* np.argmax(similarities): the first index (from 1) of the greatest
ArgMax(similarities) ==
    CHOOSE i \in 1..Len(similarities) :
        /\ \A j \in 1..Len(similarities) : ~FracLess(similarities[i], similarities[j])
        /\ \A j \in 1..(i - 1) : FracLess(similarities[j], similarities[i])

\* cosine_similarity(query_vector, self.query_vectors).flatten()
Similarities(query_vector, vectors) ==
    [i \in 1..Len(vectors) |-> Cosine2(query_vector, vectors[i])]

\* the end of find_similar: the best index if it reaches the threshold and is
\* an index of cached_responses
BestMatch(similarities, best_idx, responses) ==
    IF ReachesThreshold(similarities[best_idx]) /\ best_idx <= Len(responses)
    THEN best_idx
    ELSE 0

\* SemanticCache.find_similar(query): the index (from 1) into cached_responses
\* of the entry it returns, or 0 for None
FindSimilar(query, responses, vectors, fitted) ==
    IF ~fitted \/ responses = <<>> \/ vectors = <<>> THEN 0
    ELSE LET similarities == Similarities(Transform(NormalizeQuery(query), vectors), vectors)
         IN  BestMatch(similarities, ArgMax(similarities), responses)

\* the first pattern of popular_cache that is in the normalized query or holds
\* it, as an index from 1, or 0
PopularMatch(normalized, popular) ==
    LET matches(i) == Contains(normalized, popular[i].key)
                         \/ Contains(popular[i].key, normalized)
    IN  IF \E i \in 1..Len(popular) : matches(i)
        THEN CHOOSE i \in 1..Len(popular) : matches(i) /\ \A j \in 1..(i - 1) : ~matches(j)
        ELSE 0

\* the first of popular_keywords in the normalized query, as an index, or 0
PopularKeyword(normalized) ==
    LET holds(i) == Contains(normalized, POPULAR_KEYWORDS[i])
    IN  IF \E i \in 1..Len(POPULAR_KEYWORDS) : holds(i)
        THEN CHOOSE i \in 1..Len(POPULAR_KEYWORDS) : holds(i) /\ \A j \in 1..(i - 1) : ~holds(j)
        ELSE 0

NoIntelCall == [op |-> "none"]

\* the call made last: what was asked, which tier answered, and the object it
\* handed back as it was when the call returned
Called(op, query, context, tier, found, usage) ==
    [op |-> op, query |-> query, context |-> context, tier |-> tier,
     found |-> found, usage |-> usage, outcome |-> "returned", at |-> now]
\* the call ended in an exception instead
Raised(call) == [call EXCEPT !.outcome = "raised"]
\* what a call that returns no entry tells of usage counts
NoUsage == [id |-> 0, before |-> 0, seen |-> FALSE, prev_id |-> 0, prev_count |-> 0]
\* what a hit tells: the entry returned, its usage_count before the call, and
\* the entry and count the previous hit for the same query_hash returned
UsageOf(query_hash, id) ==
    IF id = 0 THEN NoUsage
    ELSE [id |-> id, before |-> entries[id].usage_count,
          seen |-> query_hash \in DOMAIN usage_seen,
          prev_id |-> IF query_hash \in DOMAIN usage_seen
                      THEN usage_seen[query_hash].id ELSE 0,
          prev_count |-> IF query_hash \in DOMAIN usage_seen
                         THEN usage_seen[query_hash].usage_count ELSE 0]
NoEntry == CachedResponse(NoText, <<>>, 0, NoText, NoText)

\* a mutation of LookupTiers: the popular tier is asked before the exact tier
LookupTiersPopularFirst(query_hash, popular_idx, semantic_idx) ==
    IF popular_idx # 0
    THEN [tier |-> "popular", id |-> popular_cache[popular_idx].value]
    ELSE IF query_hash \in OdKeys(exact_cache)
    THEN [tier |-> "exact", id |-> OdGet(exact_cache, query_hash)]
    ELSE IF semantic_idx # 0
    THEN [tier |-> "semantic", id |-> cached_responses[semantic_idx]]
    ELSE [tier |-> "miss", id |-> 0]

\* the tiers of get_cached_response in their order: the tier that answers and
\* the object it answers with (0 for none)
LookupTiers(query_hash, popular_idx, semantic_idx) ==
    IF query_hash \in OdKeys(exact_cache)
    THEN [tier |-> "exact", id |-> OdGet(exact_cache, query_hash)]
    ELSE IF popular_idx # 0
    THEN [tier |-> "popular", id |-> popular_cache[popular_idx].value]
    ELSE IF semantic_idx # 0
    THEN [tier |-> "semantic", id |-> cached_responses[semantic_idx]]
    ELSE [tier |-> "miss", id |-> 0]

\* a mutation of CountUse: the hit is not counted
CountUseForgotten(entry) == entry

\* response.usage_count += 1
CountUse(entry) == [entry EXCEPT !.usage_count = @ + 1]

\* the counters and the usage_count get_cached_response updates for the answer
Answered(query, context, hit) ==
    /\ stats' = [stats EXCEPT
                    !.total_requests = @ + 1,
                    !.exact_hits = IF hit.tier \in {"exact", "popular"} THEN @ + 1 ELSE @,
                    !.semantic_hits = IF hit.tier = "semantic" THEN @ + 1 ELSE @,
                    !.misses = IF hit.tier = "miss" THEN @ + 1 ELSE @]
    /\ entries' = IF hit.id = 0 THEN entries
                  ELSE [entries EXCEPT ![hit.id] = CountUse(@)]
    /\ lastCall' = Called("get", query, context, hit.tier,
                          IF hit.id = 0 THEN NoEntry ELSE entries'[hit.id],
                          UsageOf(GetQueryHash(query, context), hit.id))
    /\ usage_seen' = IF hit.id = 0 THEN usage_seen
                     ELSE DictPut(usage_seen, GetQueryHash(query, context),
                                  [id |-> hit.id,
                                   usage_count |-> entries'[hit.id].usage_count])

\* get_cached_response(query, context)
GetCachedResponse(query, context) ==
    /\ Answered(query, context,
                LookupTiers(GetQueryHash(query, context),
                            PopularMatch(NormalizeQuery(query), popular_cache),
                            FindSimilar(query, cached_responses, query_vectors,
                                        is_fitted)))
    /\ intel_calls' = intel_calls + 1
    /\ UNCHANGED <<exact_cache, popular_cache, cached_responses, query_vectors,
                   is_fitted, stored_hashes>>

\* cache_response(query, response, sources, context), with the add_to_cache and
\* the _update_popular_cache it ends with
CacheResponse(query, response, sources, context) ==
    LET query_hash == GetQueryHash(query, context)
        id == NewId(DOMAIN entries)
        created == [x \in DOMAIN entries \cup {id} |->
                       IF x = id
                       THEN CachedResponse(response, sources, now, query_hash, context)
                       ELSE entries[x]]
        stored == OdPut(exact_cache, query_hash, id)
        exact == IF Len(stored) > MAX_EXACT_CACHE
                 THEN OdDel(stored, OldestKey(stored, created))
                 ELSE stored
        sem == AddToCache(query, id, cached_responses, query_vectors, is_fitted, created)
        keyword == PopularKeyword(NormalizeQuery(query))
        popular == IF keyword = 0 \/ sem.raised THEN popular_cache
                   ELSE OdPut(popular_cache, POPULAR_KEYWORDS[keyword], id)
    IN  /\ exact_cache' = exact
        /\ cached_responses' = sem.cached_responses
        /\ query_vectors' = sem.query_vectors
        /\ is_fitted' = sem.is_fitted
        /\ popular_cache' = popular
        /\ entries' = Restrict(sem.entries,
                               LiveEntries(exact, popular, sem.cached_responses))
        /\ lastCall' = IF sem.raised
                       THEN Raised(Called("store", query, context, "none", sem.entries[id],
                                          NoUsage))
                       ELSE Called("store", query, context, "none", sem.entries[id], NoUsage)
        /\ usage_seen' = [h \in DOMAIN usage_seen |->
                             IF usage_seen[h].id \in DOMAIN entries' THEN usage_seen[h]
                             ELSE [usage_seen[h] EXCEPT !.id = 0]]
        /\ stored_hashes' = stored_hashes \cup {query_hash}
        /\ intel_calls' = intel_calls + 1
        /\ UNCHANGED stats

\* a mutation of ResetStats: the hit and miss counters are reset, the number
\* of requests is kept
ResetHitsAndMisses(st) ==
    [key \in DOMAIN st |-> IF key = "total_requests" THEN st[key] ELSE 0]

\* `self.stats = {key: 0 for key in self.stats}`
ResetStats(st) == [key \in DOMAIN st |-> 0]

\* get_cache_stats()["hit_rate_percent"] before rounding, as a fraction
\* (the key is absent while total_requests is 0)
HitRatePercent(st) ==
    [num |-> (st.exact_hits + st.semantic_hits) * 100, den |-> st.total_requests]

\* clear_cache()
ClearCache ==
    /\ exact_cache' = <<>>
    /\ cached_responses' = <<>>
    /\ query_vectors' = <<>>
    /\ is_fitted' = FALSE
    /\ stats' = ResetStats(stats)
    /\ entries' = Restrict(entries, LiveEntries(<<>>, popular_cache, <<>>))
    /\ lastCall' = Called("clear", NoText, NoText, "none", NoEntry, NoUsage)
    /\ usage_seen' = EmptyDict
    /\ stored_hashes' = {}
    /\ intel_calls' = intel_calls + 1
    /\ UNCHANGED popular_cache

\* IntelligentChatCache(): empty tiers but for the preloaded popular patterns
IntelStart ==
    /\ entries = [id \in 1..Len(PRELOADED_PATTERNS) |->
                    CachedResponse(<<"preloaded">> \o PRELOADED_PATTERNS[id],
                                   <<"overview.md">>, now,
                                   <<"popular">> \o PRELOADED_PATTERNS[id], NoText)]
    /\ popular_cache = [id \in 1..Len(PRELOADED_PATTERNS) |->
                          [key |-> PRELOADED_PATTERNS[id], value |-> id]]
    /\ exact_cache = <<>>
    /\ cached_responses = <<>>
    /\ query_vectors = <<>>
    /\ is_fitted = FALSE
    /\ stats = ZeroStats
    /\ intel_calls = 0
    /\ usage_seen = EmptyDict
    /\ stored_hashes = {}
    /\ lastCall = NoIntelCall

----------------------------------------------------------------------------
(* app/api/server.py: the history functions called on their own *)

VARIABLES
    truncation          \* a call of a history function: its arguments and its result

hist_vars == <<truncation>>

NoTruncation == [op |-> "none"]

\* _smart_truncate_history(messages, max_messages) is called
SmartTruncateCall ==
    /\ truncation.op = "input"
    /\ truncation' = [truncation EXCEPT
                         !.op = "_smart_truncate_history",
                         !.result = SmartTruncateHistory(truncation.messages,
                                                         truncation.max_messages)]

\* build_history_context_async(messages) is called in a process whose
\* MAX_HISTORY_MESSAGES is max_messages and whose ASYNC_HISTORY_THRESHOLD is
\* threshold: the messages it selects and the path that formats them
BuildHistoryCall ==
    /\ truncation.op = "input"
    /\ truncation.messages # <<>>
    /\ truncation' = [truncation EXCEPT
                         !.op = "build_history_context_async",
                         !.result = RelevantHistoryOf(truncation.messages,
                                                      truncation.max_messages),
                         !.path = IF HistoryOffloadedOf(truncation.messages,
                                                        truncation.max_messages,
                                                        truncation.threshold)
                                  THEN "executor" ELSE "inline"]

\* no history function is called
HistStart == truncation = NoTruncation

----------------------------------------------------------------------------
(* app/api/server.py: the lifetime of the stored conversations *)

VARIABLES
    lastConv            \* history: the last sweep or /conversations request

conv_vars == <<lastConv>>

NoConv == [op |-> "none"]

\* RAG_CONVERSATION_TTL_SECONDS, in seconds (3600 by default)
CONVERSATION_TTL_SECONDS == 1

\* `now - meta.get("last_activity", ...) > CONVERSATION_TTL_SECONDS` at time t
\* for the meta dict of a stored conversation. A mutation first: a
\* conversation expires as soon as its age reaches the TTL
IsExpiredAtTtl(cmeta, ms, cid, t) ==
    t - ms[cmeta[cid]].last_activity >= Seconds(CONVERSATION_TTL_SECONDS)

IsExpired(cmeta, ms, cid, t) ==
    t - ms[cmeta[cid]].last_activity > Seconds(CONVERSATION_TTL_SECONDS)

\* d.pop(k, None) for every k of keys
PopAll(d, keys) == [x \in DOMAIN d \ keys |-> d[x]]

\* history: the stored messages and last_activity of every conversation
StoreSnapshot ==
    [messages |-> [cid \in DOMAIN conversations |-> lists[conversations[cid]]],
     activity |-> [cid \in DOMAIN conversation_meta |->
                      metas[conversation_meta[cid]].last_activity]]

\* the store once the conversations of `gone` are popped from both dicts; the
\* lists and metas a handler in flight still holds live on
DropConversations(gone) ==
    /\ conversations' = PopAll(conversations, gone)
    /\ conversation_meta' = PopAll(conversation_meta, gone)
    /\ lists' = Restrict(lists, LiveLists(conversations', req))
    /\ metas' = Restrict(metas, LiveMetas(conversation_meta', req))

conv_frame ==
    <<now, config_vars, rate_vars, chat_cache, agent_factory, req, started, lastDone>>

\* one round of conversation_cleanup_loop: cleanup_expired_conversations()
CleanupExpiredConversations ==
    LET expired == {cid \in DOMAIN conversation_meta :
                       IsExpired(conversation_meta, metas, cid, now)}
    IN  /\ DropConversations(expired)
        /\ lastConv' = [op |-> "cleanup", at |-> now, before |-> StoreSnapshot,
                        returned |-> Cardinality(expired)]
        /\ UNCHANGED conv_frame

\* GET /conversations/{conversation_id}
GetConversation(conversation_id) ==
    LET known == conversation_id \in DOMAIN conversation_meta
        expired == known /\ IsExpired(conversation_meta, metas, conversation_id, now)
    IN  /\ IF expired THEN DropConversations({conversation_id})
           ELSE UNCHANGED store_vars
        /\ lastConv' =
              [op |-> "get", at |-> now, before |-> StoreSnapshot,
               conversation_id |-> conversation_id,
               status |-> IF expired \/ conversation_id \notin DOMAIN conversations
                          THEN 404 ELSE 200,
               messages |-> IF ~expired /\ conversation_id \in DOMAIN conversations
                            THEN lists[conversations[conversation_id]] ELSE <<>>]
        /\ UNCHANGED conv_frame

\* DELETE /conversations/{conversation_id}
DeleteConversation(conversation_id) ==
    /\ DropConversations({conversation_id})
    /\ lastConv' = [op |-> "delete", at |-> now, before |-> StoreSnapshot,
                    conversation_id |-> conversation_id,
                    cleared |-> IF conversation_id \in DOMAIN conversations
                                THEN 1 ELSE 0]
    /\ UNCHANGED conv_frame

\* DELETE /conversations
ClearConversations ==
    /\ DropConversations(DOMAIN conversations \cup DOMAIN conversation_meta)
    /\ lastConv' = [op |-> "clear", at |-> now, before |-> StoreSnapshot,
                    cleared |-> Cardinality(DOMAIN conversations)]
    /\ UNCHANGED conv_frame

ConvStart == lastConv = NoConv

----------------------------------------------------------------------------
(* app/api/server.py and app/utils/ingestion.py: writes into the document   *)
(* index                                                                     *)

VARIABLES
    startup,            \* "auto_ingest" while startup_event ingests, then "serving"
    ingest_lock,        \* _ingest_lock: the slot of the request holding it, or 0
    lock_waiters,       \* the requests waiting for _ingest_lock, first come first
    ingest,             \* the document requests in flight, by slot
    ingest_started,     \* document requests started so far
    index_size          \* texts rag.ainsert has written so far

ingest_vars == <<startup, ingest_lock, lock_waiters, ingest, ingest_started, index_size>>

\* slots of document requests in flight, files of one request, and the
\* requests of one behaviour
MaxIngestInFlight == 3
MaxFiles == 2
MaxIngestRequests == 4

IngestSlots == 1..MaxIngestInFlight

\* RAG_INGEST_CONCURRENT_INSERTS (3 by default)
DEFAULT_CONCURRENT_INSERTS == 3

NoIngest == [pc |-> "idle", ep |-> "none", files |-> 0, writing |-> 0]

Least(a, b) == IF a <= b THEN a ELSE b

\* `async with _ingest_lock:` is entered by the request in slot r for `files`
\* texts: it holds the lock at once when the lock is free and nobody waits,
\* and waits in line otherwise
AcquireIngestLock(r, ep, files) ==
    IF ingest_lock = 0 /\ lock_waiters = <<>>
    THEN /\ ingest_lock' = r
         /\ lock_waiters' = lock_waiters
         /\ ingest' = [ingest EXCEPT ![r] = [pc |-> "ingest_files", ep |-> ep,
                                             files |-> files, writing |-> 0]]
    ELSE /\ ingest_lock' = ingest_lock
         /\ lock_waiters' = Append(lock_waiters, r)
         /\ ingest' = [ingest EXCEPT ![r] = [pc |-> "acquire", ep |-> ep,
                                             files |-> files, writing |-> 0]]

\* the lock is released by the request in slot r, which returns: the first
\* waiter holds it next
ReleaseIngestLock(r) ==
    IF lock_waiters = <<>>
    THEN /\ ingest_lock' = 0
         /\ lock_waiters' = lock_waiters
         /\ ingest' = [ingest EXCEPT ![r] = NoIngest]
    ELSE /\ ingest_lock' = Head(lock_waiters)
         /\ lock_waiters' = Tail(lock_waiters)
         /\ ingest' = [ingest EXCEPT ![r] = NoIngest,
                                     ![Head(lock_waiters)].pc = "ingest_files"]

\* POST /documents/insert up to `await rag.ainsert(content)`
InsertDocument(r) ==
    /\ startup = "serving"
    /\ ingest[r].pc = "idle"
    /\ ingest_started < MaxIngestRequests
    /\ ingest_started' = ingest_started + 1
    /\ ingest' = [ingest EXCEPT ![r] = [pc |-> "ainsert", ep |-> "insert",
                                        files |-> 1, writing |-> 1]]
    /\ UNCHANGED <<startup, ingest_lock, lock_waiters, index_size>>

\* POST /documents/upload up to the lock: the file is stored, and ingested
\* when asked for
UploadDocument(r, do_ingest) ==
    /\ startup = "serving"
    /\ ingest[r].pc = "idle"
    /\ ingest_started < MaxIngestRequests
    /\ ingest_started' = ingest_started + 1
    /\ IF do_ingest THEN AcquireIngestLock(r, "upload", 1)
       ELSE UNCHANGED <<ingest_lock, lock_waiters, ingest>>
    /\ UNCHANGED <<startup, index_size>>

\* POST /documents/ingest/scan up to the lock; `files` is what scan_directory
\* finds
IngestScan(r, files) ==
    /\ startup = "serving"
    /\ ingest[r].pc = "idle"
    /\ ingest_started < MaxIngestRequests
    /\ ingest_started' = ingest_started + 1
    /\ IF files = 0 THEN UNCHANGED <<ingest_lock, lock_waiters, ingest>>
       ELSE AcquireIngestLock(r, "scan", files)
    /\ UNCHANGED <<startup, index_size>>

\* ingest_files, step 3: the insert tasks of the texts start, as many at a
\* time as the semaphore lets in
IngestFilesInsert(r) ==
    /\ ingest[r].pc = "ingest_files"
    /\ ingest' = [ingest EXCEPT ![r].pc = "ainsert",
                                ![r].writing = Least(ingest[r].files,
                                                     DEFAULT_CONCURRENT_INSERTS)]
    /\ UNCHANGED <<startup, ingest_lock, lock_waiters, ingest_started, index_size>>

\* one `await rag.ainsert(text)` of the request in slot r ends; with its last
\* one the request returns (and leaves `async with _ingest_lock`)
AInsertDone(r) ==
    /\ ingest[r].pc = "ainsert"
    /\ index_size' = index_size + 1
    /\ IF ingest[r].files > 1
       THEN /\ ingest' = [ingest EXCEPT
                             ![r].files = @ - 1,
                             ![r].writing = Least(ingest[r].files - 1,
                                                  DEFAULT_CONCURRENT_INSERTS)]
            /\ UNCHANGED <<ingest_lock, lock_waiters>>
       ELSE IF ingest_lock = r
       THEN ReleaseIngestLock(r)
       ELSE /\ ingest' = [ingest EXCEPT ![r] = NoIngest]
            /\ UNCHANGED <<ingest_lock, lock_waiters>>
    /\ UNCHANGED <<startup, ingest_started>>

\* asyncio.wait_for times out: the request is cancelled where it stands, its
\* writes with it, and `async with` gives the lock back
IngestTimeout(r) ==
    /\ ingest[r].pc # "idle"
    /\ IF ingest_lock = r
       THEN ReleaseIngestLock(r)
       ELSE /\ ingest' = [ingest EXCEPT ![r] = NoIngest]
            /\ lock_waiters' = SelectSeq(lock_waiters, LAMBDA x : x # r)
            /\ ingest_lock' = ingest_lock
    /\ UNCHANGED <<startup, ingest_started, index_size>>

\* the auto-ingest of startup_event ends; the application starts serving
StartupDone(files) ==
    /\ startup = "auto_ingest"
    /\ startup' = "serving"
    /\ index_size' = index_size + files
    /\ UNCHANGED <<ingest_lock, lock_waiters, ingest, ingest_started>>

\* the process at import, nothing ingested (RAG_AUTO_INGEST_ON_START off)
IngestStart ==
    /\ startup = "serving"
    /\ ingest_lock = 0
    /\ lock_waiters = <<>>
    /\ ingest = [r \in IngestSlots |-> NoIngest]
    /\ ingest_started = 0
    /\ index_size = 0

\* the process in startup_event, which may auto-ingest before it serves
IngestStartup ==
    /\ startup \in {"auto_ingest", "serving"}
    /\ ingest_lock = 0
    /\ lock_waiters = <<>>
    /\ ingest = [r \in IngestSlots |-> NoIngest]
    /\ ingest_started = 0
    /\ index_size = 0
----------------------------------------------------------------------------
(* app/core/chat_cache.py and app/api/server.py: the cache keys of two       *)
(* queries, computed on their own                                            *)

VARIABLES
    keyed               \* two queries and, once computed, their keys

key_vars == <<keyed>>

NoKeys == [op |-> "none"]

\* _get_query_hash(query, context) of IntelligentChatCache for both queries
QueryHashCall(context) ==
    /\ keyed.op = "input"
    /\ keyed' = [keyed EXCEPT !.op = "_get_query_hash",
                              !.first = GetQueryHash(keyed.queries[1], context),
                              !.second = GetQueryHash(keyed.queries[2], context)]

\* _get_chat_cache_key(message, conversation_id, user_id, model) of
\* chat_endpoint for both queries as request.message
ChatCacheKeyCall(conversation_id, user_id, model) ==
    /\ keyed.op = "input"
    /\ keyed' = [keyed EXCEPT
                    !.op = "_get_chat_cache_key",
                    !.first = GetChatCacheKey(keyed.queries[1], conversation_id,
                                              user_id, model),
                    !.second = GetChatCacheKey(keyed.queries[2], conversation_id,
                                               user_id, model)]

\* the arguments chat_endpoint passes to _get_chat_cache_key for a request
\* (lines 948-960) and the key it obtains
KeyOfRequest(request) ==
    LET call == NewCall("chat", request.message, request.conversation_id, NoText,
                        request.user_id, NoText, request.model)
    IN  [tuple |-> <<call.message, call.conv_id, call.user_id,
                     OrElse(request.model, DEFAULT_MODEL)>>,
         key |-> call.cache_key]

\* two chat_endpoint requests up to the cache key each of them obtains
ChatEndpointKeys(first_request, second_request) ==
    /\ keyed.op = "input"
    /\ keyed' = [op |-> "chat_endpoint",
                 queries |-> <<first_request.message, second_request.message>>,
                 tuples |-> <<KeyOfRequest(first_request).tuple,
                              KeyOfRequest(second_request).tuple>>,
                 first |-> KeyOfRequest(first_request).key,
                 second |-> KeyOfRequest(second_request).key]

KeysStart == keyed = NoKeys
----------------------------------------------------------------------------
(* app/core/rag.py: RAGManager.initialize and RAGManager.get_rag              *)

VARIABLES
    rag_obj,            \* RAGManager._rag: 0 for None, else the LightRAG instance
    rag_made,           \* the LightRAG instances created, by identity
    mgr_call,           \* the initialize / get_rag call of each caller
    mgr_calls,          \* calls started
    lastHanded          \* what the call that ended last handed to its caller

mgr_vars == <<rag_obj, rag_made, mgr_call, mgr_calls, lastHanded>>

\* concurrent callers of one RAGManager
RagCallers == 1..3
\* calls started in one behaviour
MaxRagCalls == 4

MgrIdle == [pc |-> "idle"]
NoHandOver == [op |-> "none"]

\* LightRAG(...): storages not initialized yet
NewLightRAG == [storages |-> "created", initialized_times |-> 0]

\* `return self._rag` of a call
Handed(p, op) ==
    [op |-> op, caller |-> p, outcome |-> "returned", instance |-> rag_obj,
     storages |-> rag_made[rag_obj].storages]
\* the call ended in an exception
MgrRaised(p, op) ==
    [op |-> op, caller |-> p, outcome |-> "raised", instance |-> 0, storages |-> "none"]

\* get_rag() or initialize() up to its first await: both test `self._rag is
\* None`; initialize assigns the new instance to self._rag and then awaits
\* initialize_storages
RagCall(p, op) ==
    /\ mgr_call[p].pc = "idle"
    /\ mgr_calls' = mgr_calls + 1
    /\ IF rag_obj # 0
       THEN /\ lastHanded' = Handed(p, op)
            /\ UNCHANGED <<rag_obj, rag_made, mgr_call>>
       ELSE IF ~OPENAI_API_KEY
       THEN /\ lastHanded' = MgrRaised(p, op)
            /\ UNCHANGED <<rag_obj, rag_made, mgr_call>>
       ELSE /\ rag_made' = Append(rag_made,
                                  [NewLightRAG EXCEPT !.initialized_times = 1])
            /\ rag_obj' = Len(rag_made) + 1
            /\ mgr_call' = [mgr_call EXCEPT ![p] =
                               [pc |-> "initialize_storages", op |-> op]]
            /\ lastHanded' = NoHandOver

\* `await self._rag.initialize_storages()` ends
InitializeStoragesDone(p, ok) ==
    /\ mgr_call[p].pc = "initialize_storages"
    /\ rag_made' = [rag_made EXCEPT ![rag_obj].storages =
                       IF ok THEN "initialized" ELSE "failed"]
    /\ IF ok
       THEN /\ mgr_call' = [mgr_call EXCEPT ![p].pc = "initialize_pipeline_status"]
            /\ lastHanded' = NoHandOver
       ELSE /\ mgr_call' = [mgr_call EXCEPT ![p] = MgrIdle]
            /\ lastHanded' = MgrRaised(p, mgr_call[p].op)
    /\ UNCHANGED <<rag_obj, mgr_calls>>

\* `await initialize_pipeline_status()` ends; the backfill that follows
\* swallows its errors, and the call returns self._rag
PipelineStatusDone(p, ok) ==
    /\ mgr_call[p].pc = "initialize_pipeline_status"
    /\ mgr_call' = [mgr_call EXCEPT ![p] = MgrIdle]
    /\ lastHanded' = IF ok THEN Handed(p, mgr_call[p].op)
                     ELSE MgrRaised(p, mgr_call[p].op)
    /\ UNCHANGED <<rag_obj, rag_made, mgr_calls>>

\* RAGManager(config)
MgrStart ==
    /\ rag_obj = 0
    /\ rag_made = <<>>
    /\ mgr_call = [p \in RagCallers |-> MgrIdle]
    /\ mgr_calls = 0
    /\ lastHanded = NoHandOver

----------------------------------------------------------------------------
(* the parts that most specifications leave alone *)

rest_vars == <<hist_vars, conv_vars, ingest_vars, key_vars, mgr_vars>>

RestStart ==
    /\ HistStart
    /\ ConvStart
    /\ IngestStart
    /\ KeysStart
    /\ MgrStart
----------------------------------------------------------------------------
(* Specifications *)

other_than_server == <<rag_vars, perf_vars, call_vars, intel_vars, rest_vars>>
vars == <<server_vars, rag_vars, perf_vars, call_vars, intel_vars, rest_vars>>

\* a server that takes no requests
ServerQuiet ==
    /\ ServerStart
    /\ USER_RATE_LIMIT = MaxLimit
    /\ ASYNC_HISTORY_THRESHOLD = ASYNC_HISTORY_THRESHOLD_DEFAULT
    /\ OPENAI_API_KEY = TRUE

\* a PerformanceOptimizer nobody calls
PerfQuiet == PerfStart(MaxTtl, MaxCacheSize)

----------------------------------------------------------------------------
(* SpecRate: the rate limiter under chat and chat/stream requests of two     *)
(* users (one named, one anonymous), for every limit in 0..MaxLimit          *)

RateMessages == {<<"a">>}
RateUserIds == {NoText, <<"u">>}
RateOutcomes == AgentOutcomes({Rep("x", 11)}, {})

RateInit ==
    /\ ServerStart
    /\ RagStart
    /\ PerfQuiet
    /\ CallsStart
    /\ IntelStart
    /\ RestStart
    /\ USER_RATE_LIMIT \in 0..MaxLimit
    /\ ASYNC_HISTORY_THRESHOLD = ASYNC_HISTORY_THRESHOLD_DEFAULT
    /\ OPENAI_API_KEY = TRUE

RateNext ==
    \/ \E r \in Slots, message \in RateMessages, user_id \in RateUserIds :
          /\ started < MaxRateRequests
          /\ ChatStart(r, message, <<"c">>, NoText, user_id, NoText, NoText, TRUE)
          /\ UNCHANGED other_than_server
    \/ \E r \in Slots, message \in RateMessages, user_id \in RateUserIds :
          /\ started < MaxRateRequests
          /\ StreamStart(r, message, <<"c">>, NoText, user_id, NoText, NoText, TRUE)
          /\ UNCHANGED other_than_server
    \/ \E r \in Slots, outcome \in RateOutcomes :
          ChatAgentDone(r, outcome) /\ UNCHANGED other_than_server
    \/ \E r \in Slots, outcome \in RateOutcomes :
          StreamAgentDone(r, outcome) /\ UNCHANGED other_than_server
    \/ Tick /\ UNCHANGED other_than_server

SpecRate == RateInit /\ [][RateNext]_vars

----------------------------------------------------------------------------
(* SpecChat: chat_endpoint and chat_stream_endpoint of one user on one       *)
(* conversation, with every way an agent run or the agent creation can end   *)

\* request.message: a blank one (rejected by validation) and a question
ChatMessages == {<<" ">>, <<"a">>}
\* result.data of an agent run: empty, 10 characters after strip(), and two
\* answers of 11 characters
ChatData ==
    { <<>>,
      <<" ">> \o Rep("x", 10) \o <<" ">>,
      Rep("x", 11),
      Rep("y", 11) }
\* str(run_err) of a failed agent run
ChatErrors == { {}, {"model_not_found"}, {"does not exist"}, {"Rate Limit"}, {"timeout"} }
ChatOutcomes == AgentOutcomes(ChatData, ChatErrors)

ChatInit ==
    /\ ServerStart
    /\ RagStart
    /\ PerfQuiet
    /\ CallsStart
    /\ IntelStart
    /\ RestStart
    /\ USER_RATE_LIMIT = MaxLimit
    /\ ASYNC_HISTORY_THRESHOLD \in {ASYNC_HISTORY_THRESHOLD_LOW, ASYNC_HISTORY_THRESHOLD_DEFAULT}
    /\ OPENAI_API_KEY \in BOOLEAN

ChatNext ==
    \/ \E r \in Slots, message \in ChatMessages, create_ok \in BOOLEAN :
          /\ started < MaxChatRequests
          /\ ChatStart(r, message, <<"c">>, NoText, <<"u">>, NoText, NoText, create_ok)
          /\ UNCHANGED other_than_server
    \/ \E r \in Slots, message \in ChatMessages, create_ok \in BOOLEAN :
          /\ started < MaxChatRequests
          /\ StreamStart(r, message, <<"c">>, NoText, <<"u">>, NoText, NoText, create_ok)
          /\ UNCHANGED other_than_server
    \/ \E r \in Slots, create_ok \in BOOLEAN :
          HistoryDone(r, create_ok) /\ UNCHANGED other_than_server
    \/ \E r \in Slots, outcome \in ChatOutcomes :
          ChatAgentDone(r, outcome) /\ UNCHANGED other_than_server
    \/ \E r \in Slots, outcome \in ChatOutcomes :
          StreamAgentDone(r, outcome) /\ UNCHANGED other_than_server
    \/ Tick /\ UNCHANGED other_than_server

SpecChat == ChatInit /\ [][ChatNext]_vars

----------------------------------------------------------------------------
(* Claims on the rate limiter (SpecRate) *)

RateCalled == "ok" \in DOMAIN lastRate

\* C1: with limit L and window W, the first L calls of _enforce_user_rate_limit
\* inside one window are admitted, the (L+1)-th call inside the same window is
\* rejected with 429, and the first call made once now - window_start >= W is
\* admitted and starts a fresh window with count 1.
C1_RateWindow ==
    RateCalled =>
        /\ lastRate.prior = "elapsed" =>
              /\ lastRate.ok
              /\ lastRate.after = [count |-> 1, window_start |-> lastRate.at]
        /\ (lastRate.prior # "elapsed" /\ lastRate.position <= USER_RATE_LIMIT) =>
              lastRate.ok
        /\ (lastRate.prior # "elapsed" /\ lastRate.position = USER_RATE_LIMIT + 1) =>
              ~lastRate.ok

\* C2: each user's stored window count is <= the limit for any configured
\* limit, at most `limit` requests pass the limiter within one window under any
\* interleaving of chat and chat/stream requests, and a rejected request leaves
\* count and window_start unchanged.
C2_CountWithinLimit ==
    /\ \A u \in DOMAIN user_rate : user_rate[u].count <= USER_RATE_LIMIT
    /\ \A u \in DOMAIN window_calls : window_calls[u].passes <= USER_RATE_LIMIT
    /\ (RateCalled /\ ~lastRate.ok) => lastRate.after = lastRate.before

\* C18: every rejection of _enforce_user_rate_limit reports a number of
\* seconds to retry in that is greater than zero, wherever in the window the
\* rejected request arrives.
C18_RetryAfterPositive ==
    (RateCalled /\ ~lastRate.ok) => lastRate.retry_in > 0

----------------------------------------------------------------------------
(* Claims on chat_endpoint (SpecChat) *)

ChatReturned == "outcome" \in DOMAIN lastDone /\ lastDone.ep = "chat"

\* the call that returned last came right after a successful chat call for the
\* same message, conversation, user and model
RepeatsSuccessfulCall ==
    /\ ChatReturned
    /\ lastDone.pred.ep = "chat"
    /\ lastDone.pred.cache_key = lastDone.cache_key
    /\ lastDone.pred.outcome = "success"

ServedFromCache ==
    /\ lastDone.outcome = "cache_hit"
    /\ lastDone.result.kind = "response"
    /\ lastDone.result.body.metadata.cached = TRUE
    /\ lastDone.result.body.response = lastDone.pred.response

\* C3 (as claimed): when the same message is sent twice in a row to
\* chat_endpoint with the same conversation id, user id and model and the first
\* call completed successfully, the second call is a cache hit with
\* metadata.cached == true and the identical response text, without a second
\* agent run.
C3_SecondCallHits == RepeatsSuccessfulCall => ServedFromCache

\* C3 (amended): the same, provided the first response has more than 10
\* characters after trimming and the second call arrives less than
\* CHAT_CACHE_TTL after the first call returned.
C3_SecondCallHitsWhenCached ==
    ( /\ RepeatsSuccessfulCall
      /\ Len(Strip(lastDone.pred.response)) > MIN_CACHED_RESPONSE_LEN
      /\ lastDone.t0 - lastDone.pred.at < CHAT_CACHE_TTL )
        => ServedFromCache

C3_Witness ==
    /\ RepeatsSuccessfulCall
    /\ Len(Strip(lastDone.pred.response)) > MIN_CACHED_RESPONSE_LEN
    /\ lastDone.t0 - lastDone.pred.at < CHAT_CACHE_TTL
    /\ lastDone.t0 > lastDone.pred.at
    /\ ServedFromCache

ErrorCodes == {"MODEL_NOT_FOUND", "RATE_LIMIT", "TIMEOUT", "EXECUTION_ERROR", "INIT_ERROR"}

\* C7: a chat_endpoint request that passed validation, the cache miss and the
\* rate limit ends with a structured ChatResponse: the fallback message and an
\* error field when the agent run times out, an empty response with a
\* classified error field when the agent run or the agent creation raises; no
\* such failure escapes the handler as an exception.
C7_StructuredResponse ==
    ChatReturned =>
        /\ lastDone.outcome \notin {"invalid", "rate_limited"} =>
              lastDone.result.kind = "response"
        /\ lastDone.outcome = "timeout" =>
              /\ lastDone.result.kind = "response"
              /\ lastDone.result.body.response = TIMEOUT_MESSAGE
              /\ lastDone.result.body.error # NoError
        /\ lastDone.outcome \in {"raised", "create_raised"} =>
              /\ lastDone.result.kind = "response"
              /\ lastDone.result.body.response = <<>>
              /\ lastDone.result.body.error # NoError
              /\ lastDone.result.body.error[1] \in ErrorCodes

C7_Witness ==
    /\ ChatReturned
    /\ lastDone.outcome = "raised"
    /\ lastDone.result.kind = "response"
    /\ lastDone.result.body.error[1] = "MODEL_NOT_FOUND"


\* C17: chat_endpoint performs the rate-limit check on every request with a
\* message, the ones answered from the cache included, so that each of them
\* takes one unit of the user's window or is rejected.
C17_RateLimitOnEveryRequest ==
    (ChatReturned /\ lastDone.outcome # "invalid") => lastDone.rate_checked

\* the step is a chat_endpoint request that is answered from the chat cache
AnsweredFromCache ==
    /\ started' = started + 1
    /\ ChatReturned'
    /\ lastDone'.outcome = "cache_hit"

\* C32: a chat_endpoint request answered from the chat cache leaves the rate
\* window (count, window_start) of every user and the conversation store
\* (messages and last_activity of every conversation) unchanged; a request
\* that consumes the rate limit or appends messages is not a cached one.
C32_CacheHitLeavesRateAndStore ==
    [][AnsweredFromCache =>
          /\ user_rate' = user_rate
          /\ StoreSnapshot' = StoreSnapshot
          /\ store_vars' = store_vars]_vars

\* a request was answered from the cache while its user has a rate window and
\* its conversation holds the messages of the request that filled the cache
C32_Witness ==
    /\ ChatReturned
    /\ lastDone.outcome = "cache_hit"
    /\ lastDone.user_id \in DOMAIN user_rate
    /\ user_rate[lastDone.user_id].count >= 1
    /\ \E c \in DOMAIN conversations : Len(lists[conversations[c]]) >= 2

\* C33: chat_endpoint never stores a timeout or error response in the chat
\* cache: every entry of _chat_cache is the response of a successful agent
\* run, with an empty error field and the text the agent returned.
C33_OnlySuccessfulRunsCached ==
    \A k \in DOMAIN chat_cache :
        /\ chat_cache[k].response.error = NoError
        /\ chat_cache[k].response.response \in ChatData

\* an agent run has just timed out or raised while the cache holds the
\* response of an earlier, successful run
C33_Witness ==
    /\ ChatReturned
    /\ lastDone.outcome \in {"timeout", "raised"}
    /\ lastDone.result.kind = "response"
    /\ lastDone.result.body.error # NoError
    /\ lastDone.cache_key \in DOMAIN chat_cache
----------------------------------------------------------------------------
(* SpecRetrieve: concurrent invocations of the retrieve tool with a query of *)
(* the fast tier and one of the slow tier, and every way an attempt or       *)
(* get_rag() can end                                                         *)

\* n words separated by single spaces
Words(n) == [i \in 1..(2 * n - 1) |-> IF i % 2 = 1 THEN "w" ELSE " "]

RetrieveQueries == {Words(1), Words(RETRIEVE_MEDIUM_WORDS + 1)}
RetrieveValues == {StrValue(<<"r">>), NoneValue}
RetrieveErrors == {<<"boom">>}
RetrieveOutcomes == AttemptOutcomes(RetrieveValues, RetrieveErrors)

RetrieveInit ==
    /\ ServerQuiet
    /\ RagStart
    /\ PerfQuiet
    /\ CallsStart
    /\ IntelStart
    /\ RestStart

RetrieveNext ==
    \/ \E r \in Slots, search_query \in RetrieveQueries, rag_ok \in BOOLEAN :
          /\ retrieves < MaxRetrieves
          /\ RetrieveStart(r, search_query, rag_ok)
          /\ UNCHANGED <<server_vars, perf_vars, call_vars, intel_vars, rest_vars>>
    \/ \E r \in Slots, outcome \in RetrieveOutcomes :
          PrimaryDone(r, outcome) /\ UNCHANGED <<server_vars, perf_vars, call_vars, intel_vars, rest_vars>>
    \/ \E r \in Slots, outcome \in RetrieveOutcomes :
          FallbackDone(r, outcome) /\ UNCHANGED <<server_vars, perf_vars, call_vars, intel_vars, rest_vars>>
    \/ \E r \in Slots : RetrieveCancelled(r) /\ UNCHANGED <<server_vars, perf_vars, call_vars, intel_vars, rest_vars>>
    \/ Tick /\ UNCHANGED other_than_server

SpecRetrieve == RetrieveInit /\ [][RetrieveNext]_vars

----------------------------------------------------------------------------
(* Claims on the retrieve tool (SpecRetrieve) *)

RetrieveEnded == lastRet.outcome # "none"

\* C4: a primary attempt that times out is followed by exactly one fallback
\* attempt in 'local' mode, an invocation never makes more than 2 attempts, and
\* when the fallback times out or errors as well the invocation returns
\* fallback_msg as a value instead of raising.
C4_OneFallback ==
    /\ \A r \in Slots : ret[r].pc # "idle" =>
          /\ Len(ret[r].attempts) <= 2
          /\ ret[r].primary = "timeout" =>
                (Len(ret[r].attempts) = 2 /\ ret[r].attempts[2] = "local")
    /\ RetrieveEnded => Len(lastRet.attempts) <= 2
    /\ (RetrieveEnded /\ lastRet.primary = "timeout") =>
          /\ Len(lastRet.attempts) = 2
          /\ lastRet.attempts[1] = RetrieveTier(lastRet.query).search_mode
          /\ lastRet.attempts[2] = "local"
    /\ (RetrieveEnded /\ BothFailed(lastRet)) =>
          lastRet.result = [kind |-> "value", value |-> StrValue(FallbackMsg(lastRet.query))]

C4_Witness ==
    /\ RetrieveEnded
    /\ lastRet.primary = "timeout"
    /\ lastRet.fallback = "error"
    /\ lastRet.attempts = <<"mix", "local">>
    /\ lastRet.result.kind = "value"

\* the invocation that ended last started after an invocation for the same
\* query had failed in both attempts, less than RAG_CACHE_TTL before
FollowsFailedRetrieve ==
    /\ RetrieveEnded
    /\ lastRet.pred.both_failed
    /\ lastRet.pred.query = lastRet.query
    /\ lastRet.t0 - lastRet.pred.at < RAG_CACHE_TTL

\* C5: an invocation whose primary and fallback attempts both failed stores
\* fallback_msg in _rag_cache, and the next retrieve of the same query within
\* RAG_CACHE_TTL returns that message from the cache with zero attempts.
C5_FallbackMessageCached ==
    /\ (RetrieveEnded /\ BothFailed(lastRet) /\ lastRet.at = now) =>
          /\ GetCacheKey(lastRet.query) \in DOMAIN rag_cache
          /\ rag_cache[GetCacheKey(lastRet.query)] =
                [result |-> FallbackMsg(lastRet.query), timestamp |-> lastRet.at]
    /\ FollowsFailedRetrieve =>
          /\ lastRet.attempts = <<>>
          /\ lastRet.primary = "none"
          /\ lastRet.result = [kind |-> "value", value |-> StrValue(FallbackMsg(lastRet.query))]

C5_Witness ==
    /\ FollowsFailedRetrieve
    /\ lastRet.t0 > lastRet.pred.at
    /\ lastRet.outcome = "cache_hit"
    /\ lastRet.attempts = <<>>

\* C6: when the primary attempt fails with an exception that is not a timeout,
\* the invocation makes exactly one attempt, returns the
\* "Error retrieving documents" text, and stores nothing in _rag_cache.
C6_PrimaryErrorNotRetried ==
    /\ \A r \in Slots : ret[r].pc # "idle" => ret[r].primary # "error"
    /\ (RetrieveEnded /\ lastRet.primary = "error") =>
          /\ Len(lastRet.attempts) = 1
          /\ lastRet.fallback = "none"
          /\ lastRet.result.kind = "value"
          /\ \E e \in RetrieveErrors :
                lastRet.result.value = StrValue(<<"Error retrieving documents: ">> \o e)
          /\ ~lastRet.cache_written

C6_Witness ==
    /\ RetrieveEnded
    /\ lastRet.primary = "error"
    /\ lastRet.attempts = <<"mix">>
    /\ lastRet.result.kind = "value"
    /\ rag_cache = EmptyDict

----------------------------------------------------------------------------
(* SpecCaches: lookups and stores on _chat_cache, _rag_cache and the cache   *)
(* of a PerformanceOptimizer while time passes                               *)

CacheKeys == {<<"k">>, <<"l">>}
CacheValues == {<<"v">>, <<"w">>}

CachesInit ==
    /\ ServerQuiet
    /\ RagStart
    /\ CallsStart
    /\ IntelStart
    /\ RestStart
    /\ \E ttl \in 1..MaxTtl, max_size \in 1..MaxCacheSize : PerfStart(ttl, max_size)

CachesNext ==
    \/ \E k \in CacheKeys :
          /\ cache_calls < MaxCacheCalls
          /\ ChatCacheLookup(k)
          /\ UNCHANGED <<rag_vars, perf_vars, intel_vars, rest_vars>>
    \/ \E k \in CacheKeys, v \in CacheValues :
          /\ cache_calls < MaxCacheCalls
          /\ ChatCacheStore(k, v)
          /\ UNCHANGED <<rag_vars, perf_vars, intel_vars, rest_vars>>
    \/ \E k \in CacheKeys :
          /\ cache_calls < MaxCacheCalls
          /\ RagCacheLookup(k)
          /\ UNCHANGED <<server_vars, perf_vars, intel_vars, rest_vars>>
    \/ \E k \in CacheKeys, v \in CacheValues :
          /\ cache_calls < MaxCacheCalls
          /\ RagCacheStore(k, v)
          /\ UNCHANGED <<server_vars, perf_vars, intel_vars, rest_vars>>
    \/ \E k \in CacheKeys :
          /\ cache_calls < MaxCacheCalls
          /\ PerfLookup(k)
          /\ UNCHANGED <<server_vars, rag_vars, intel_vars, rest_vars>>
    \/ \E k \in CacheKeys, v \in CacheValues :
          /\ cache_calls < MaxCacheCalls
          /\ PerfStore(k, v)
          /\ UNCHANGED <<server_vars, rag_vars, intel_vars, rest_vars>>
    \/ Tick /\ UNCHANGED other_than_server

SpecCaches == CachesInit /\ [][CachesNext]_vars

----------------------------------------------------------------------------
(* Claims on the timestamped caches (SpecCaches) *)

LookedUp == lastLookup.cache # "none"

\* C8: in _chat_cache, _rag_cache and PerformanceOptimizer._result_cache, a
\* lookup of a stored key at or after timestamp + TTL is a miss and removes the
\* entry, and a lookup strictly before timestamp + TTL returns the stored value
\* and leaves the entry as it was.
C8_LookupHonoursTtl ==
    (LookedUp /\ lastLookup.stored.present) =>
        IF lastLookup.at >= lastLookup.stored.timestamp + lastLookup.ttl
        THEN ~lastLookup.hit /\ ~lastLookup.left.present
        ELSE /\ lastLookup.hit
             /\ lastLookup.value = lastLookup.stored.value
             /\ lastLookup.left = lastLookup.stored

C8_Witness ==
    /\ LookedUp
    /\ lastLookup.cache = "perf"
    /\ lastLookup.stored.present
    /\ lastLookup.at = lastLookup.stored.timestamp + lastLookup.ttl
    /\ ~lastLookup.hit
    /\ ~lastLookup.left.present


\* C37: the timestamped caches stay within their size limit: after a store
\* returns, _chat_cache holds at most 500 entries, _rag_cache at most its
\* limit (1000 in the code) and PerformanceOptimizer._result_cache at most
\* max_cache_size, also when none of the entries has expired.
C37_CachesWithinLimit ==
    /\ Cardinality(DOMAIN chat_cache) <= CHAT_CACHE_CLEANUP_SIZE
    /\ Cardinality(DOMAIN rag_cache) <= RAG_CACHE_CLEANUP_SIZE
    /\ Len(result_cache) <= max_cache_size
----------------------------------------------------------------------------
(* SpecIntel: get_cached_response, cache_response and clear_cache on one     *)
(* IntelligentChatCache while time passes                                    *)

\* a popular keyword, a plain word, the same word in another case and with a
\* trailing blank, and a single letter of the popular patterns
IntelQueries == {<<"g", "v">>, <<"x", "y">>, <<"X", "y", " ">>, <<"v">>}
IntelContexts == {NoText, <<"c">>}
IntelResponses == {<<"r">>, <<"s">>}
IntelSources == <<"s.md">>

IntelInit ==
    /\ ServerQuiet
    /\ RagStart
    /\ PerfQuiet
    /\ CallsStart
    /\ IntelStart
    /\ RestStart

IntelNext ==
    \/ \E query \in IntelQueries, context \in IntelContexts :
          /\ intel_calls < MaxIntelCalls
          /\ GetCachedResponse(query, context)
          /\ UNCHANGED <<server_vars, rag_vars, perf_vars, call_vars, rest_vars>>
    \/ \E query \in IntelQueries, context \in IntelContexts, response \in IntelResponses :
          /\ intel_calls < MaxIntelCalls
          /\ CacheResponse(query, response, IntelSources, context)
          /\ UNCHANGED <<server_vars, rag_vars, perf_vars, call_vars, rest_vars>>
    \/ /\ intel_calls < MaxIntelCalls
       /\ ClearCache
       /\ UNCHANGED <<server_vars, rag_vars, perf_vars, call_vars, rest_vars>>
    \/ Tick /\ UNCHANGED other_than_server

SpecIntel == IntelInit /\ [][IntelNext]_vars

----------------------------------------------------------------------------
(* Claims on IntelligentChatCache (SpecIntel) *)

C10_ExactTierBounded ==
    /\ Len(exact_cache) <= MAX_EXACT_CACHE
    /\ lastCall.op = "store" =>
          LET query_hash == GetQueryHash(lastCall.query, lastCall.context)
          IN  /\ query_hash \in OdKeys(exact_cache)
              /\ entries[OdGet(exact_cache, query_hash)] = lastCall.found

C10_Witness ==
    /\ lastCall.op = "store"
    /\ Len(exact_cache) = MAX_EXACT_CACHE
    /\ Cardinality({entries[cached_responses[i]].query_hash :
                       i \in 1..Len(cached_responses)}) = MAX_EXACT_CACHE + 1
    /\ GetQueryHash(lastCall.query, lastCall.context) \in OdKeys(exact_cache)

\* a call of get_cached_response follows the call lastCall tells of
GetFollows == intel_calls' = intel_calls + 1 /\ lastCall'.op = "get"

\* C11: a get_cached_response that follows cache_response for the same
\* (query, context) is a hit with the response just stored, the later one when
\* the pair was stored twice, whatever the popular and semantic tiers hold.
C11_StoredIsReturned ==
    [][(/\ lastCall.op = "store"
        /\ GetFollows
        /\ lastCall'.query = lastCall.query
        /\ lastCall'.context = lastCall.context)
          => /\ lastCall'.tier # "miss"
             /\ lastCall'.found.response = lastCall.found.response]_vars

\* the pair looked up was stored twice with different responses, the popular
\* tier matches the query too, and the lookup answered
C11_Witness ==
    /\ lastCall.op = "get"
    /\ lastCall.tier = "exact"
    /\ PopularMatch(NormalizeQuery(lastCall.query), popular_cache) # 0
    /\ Len(cached_responses) = 2
    /\ \A i \in 1..2 : entries[cached_responses[i]].query_hash
                          = GetQueryHash(lastCall.query, lastCall.context)
    /\ entries[cached_responses[1]].response # entries[cached_responses[2]].response
    /\ lastCall.found.response = entries[cached_responses[2]].response

\* what each tier holds for a query before the call
ExactHolds(query, context) == GetQueryHash(query, context) \in OdKeys(exact_cache)
PopularHolds(query) == PopularMatch(NormalizeQuery(query), popular_cache) # 0
SemanticHolds(query) == FindSimilar(query, cached_responses, query_vectors, is_fitted) # 0

\* the change of one counter of stats over a step
Counted(counter) == stats'[counter] - stats[counter]

\* C13: get_cached_response answers from the first of the exact, popular and
\* semantic tiers that holds a match, and one of the counters exact_hits,
\* semantic_hits and misses grows by one: exact_hits for the exact tier (and
\* for the popular tier, which has no counter of its own), semantic_hits for
\* the semantic tier, misses when no tier answers.
C13_TierOrderOneCounter ==
    [][GetFollows =>
          /\ lastCall'.tier =
                IF ExactHolds(lastCall'.query, lastCall'.context) THEN "exact"
                ELSE IF PopularHolds(lastCall'.query) THEN "popular"
                ELSE IF SemanticHolds(lastCall'.query) THEN "semantic"
                ELSE "miss"
          /\ Counted("exact_hits") = IF lastCall'.tier \in {"exact", "popular"} THEN 1 ELSE 0
          /\ Counted("semantic_hits") = IF lastCall'.tier = "semantic" THEN 1 ELSE 0
          /\ Counted("misses") = IF lastCall'.tier = "miss" THEN 1 ELSE 0
          /\ Counted("exact_hits") + Counted("semantic_hits") + Counted("misses") = 1
          /\ Counted("total_requests") = 1]_vars

\* the exact tier answered a query that the popular and the semantic tier hold
\* too, after a miss
C13_Witness ==
    /\ lastCall.op = "get"
    /\ lastCall.tier = "exact"
    /\ stats.exact_hits = 1
    /\ stats.misses = 1
    /\ PopularHolds(lastCall.query)
    /\ SemanticHolds(lastCall.query)

\* a response of at most the minimum length after trimming
IsShortResponse(response) == Len(Strip(response)) <= MIN_CACHED_RESPONSE_LEN

\* C14: a response of at most the minimum length after trimming is never
\* inserted by IntelligentChatCache.cache_response (as it is never inserted by
\* chat_endpoint): after the call no tier holds it, and a later lookup of the
\* request does not return it.
C14_ShortResponseNotCached ==
    /\ (lastCall.op = "store" /\ IsShortResponse(lastCall.found.response))
          => /\ ~ExactHolds(lastCall.query, lastCall.context)
             /\ \A i \in 1..Len(cached_responses) :
                   entries[cached_responses[i]] # lastCall.found
    /\ (/\ lastCall.op = "get"
        /\ lastCall.tier # "miss"
        /\ lastCall.found.query_hash = GetQueryHash(lastCall.query, lastCall.context))
          => ~IsShortResponse(lastCall.found.response)

\* the semantic tier retains an entry add_to_cache added for the query
Retained(query, context) ==
    \E i \in 1..Len(cached_responses) :
        entries[cached_responses[i]].query_hash = GetQueryHash(query, context)

\* C15: find_similar(q) returns a match for the identical text of every query
\* q that add_to_cache added and the semantic tier still retains, whatever was
\* added after q.
C15_IdenticalQueryMatches ==
    \A query \in IntelQueries, context \in IntelContexts :
        Retained(query, context) => SemanticHolds(query)

\* add_to_cache has nothing to fit on: no word of two letters in the query and
\* no entry in the semantic tier before the call
NothingToFit(query) == Tokens(NormalizeQuery(query)) = <<>> /\ cached_responses = <<>>

\* C16: no error of the semantic tier leaves get_cached_response or
\* cache_response. Both return normally; when add_to_cache fails in fitting,
\* the exact tier holds the entry just stored; when nothing is indexed or the
\* vectorizer is not fitted, the semantic tier does not answer and the lookup
\* is a miss unless the exact or the popular tier answers.
C16_SemanticErrorsContained ==
    /\ lastCall.op \in {"get", "store"} => lastCall.outcome = "returned"
    /\ (lastCall.op = "store" /\ NothingToFit(lastCall.query))
          => /\ ExactHolds(lastCall.query, lastCall.context)
             /\ entries[OdGet(exact_cache,
                              GetQueryHash(lastCall.query, lastCall.context))]
                   = lastCall.found
             /\ ~is_fitted
    /\ (lastCall.op = "get" /\ (~is_fitted \/ cached_responses = <<>>))
          => /\ lastCall.tier # "semantic"
             /\ lastCall.tier = "miss"
                   <=> ~(ExactHolds(lastCall.query, lastCall.context)
                            \/ PopularHolds(lastCall.query))

\* cache_response returned although add_to_cache found nothing to fit on, and
\* a lookup with nothing indexed was a miss
C16_Witness ==
    /\ lastCall.op = "store"
    /\ NothingToFit(lastCall.query)
    /\ lastCall.outcome = "returned"
    /\ stats.misses = 1

----------------------------------------------------------------------------
(* SpecUsage: longer runs of get_cached_response and cache_response alone,   *)
(* on two queries, for the usage counts                                      *)

MaxUsageCalls == 4
UsageQueries == {<<"g", "v">>, <<"x", "y">>}
UsageResponse == <<"r">>

UsageNext ==
    \/ \E query \in UsageQueries :
          /\ intel_calls < MaxUsageCalls
          /\ GetCachedResponse(query, NoText)
          /\ UNCHANGED <<server_vars, rag_vars, perf_vars, call_vars, rest_vars>>
    \/ \E query \in UsageQueries :
          /\ intel_calls < MaxUsageCalls
          /\ CacheResponse(query, UsageResponse, IntelSources, NoText)
          /\ UNCHANGED <<server_vars, rag_vars, perf_vars, call_vars, rest_vars>>
    \/ Tick /\ UNCHANGED other_than_server

SpecUsage == IntelInit /\ [][UsageNext]_vars

\* a hit for a (query, context) pair that was hit before
HitAgain == lastCall.op = "get" /\ lastCall.usage.id # 0 /\ lastCall.usage.seen

----------------------------------------------------------------------------
(* Claims on the ownership of entries (SpecIntel) *)

IntelTiers == {"exact", "popular", "semantic"}

\* the objects a tier holds
HeldBy(tier, exact, popular, responses) ==
    CASE tier = "exact" -> {exact[i].value : i \in 1..Len(exact)}
      [] tier = "popular" -> {popular[i].value : i \in 1..Len(popular)}
      [] tier = "semantic" -> {responses[i] : i \in 1..Len(responses)}

\* the step is a call of cache_response that returns
StoreFollows ==
    /\ intel_calls' = intel_calls + 1
    /\ lastCall'.op = "store"
    /\ lastCall'.outcome = "returned"

\* C24: an entry stored by cache_response is not shared mutably between the
\* tiers: a hit served by one tier, which counts the use, leaves the entries
\* held by every other tier as they were, and the entry the exact tier holds
\* after cache_response is as the exact tier stored it, without the embedding
\* the insert into the semantic tier sets.
C24_NoSharingBetweenTiers ==
    [][/\ GetFollows =>
             \A tier \in IntelTiers \ {lastCall'.tier} :
                \A id \in HeldBy(tier, exact_cache, popular_cache, cached_responses) :
                   entries'[id] = entries[id]
       /\ StoreFollows =>
             \A id \in HeldBy("exact", exact_cache', popular_cache', cached_responses') :
                id \notin DOMAIN entries => entries'[id].embedding = NoEmbedding]_vars

----------------------------------------------------------------------------
(* Claims on the popular tier (SpecIntel) *)

\* C30: get_cached_response answers from the popular tier with the entry of a
\* keyword only if the normalized query contains that keyword; a query that
\* contains no popular keyword (an empty or a one-letter query, say) is never
\* a popular-tier hit.
C30_PopularHitNeedsKeyword ==
    (lastCall.op = "get" /\ lastCall.tier = "popular") =>
        \E i \in 1..Len(popular_cache) :
            /\ popular_cache[i].value = lastCall.usage.id
            /\ Contains(NormalizeQuery(lastCall.query), popular_cache[i].key)

----------------------------------------------------------------------------
(* Claims on clear_cache (SpecIntel) *)

\* C31: clear_cache clears every cache level: when it has returned, all
\* statistics counters are zero, and a get_cached_response made before any
\* new cache_response is a miss whatever the query.
C31_ClearCacheClearsAllLevels ==
    [][lastCall.op = "clear" =>
          /\ stats = ZeroStats
          /\ GetFollows => lastCall'.tier = "miss"]_vars

\* row i of query_vectors is the vector of the query that cached_responses[i]
\* was stored with
VectorsAligned ==
    /\ Len(query_vectors) = Len(cached_responses)
    /\ \A i \in 1..Len(cached_responses) :
          entries[cached_responses[i]].embedding = [set |-> TRUE, row |-> query_vectors[i]]

\* the entry a semantic hit returned is the one stored with the cached query
\* most similar to the query asked
SemanticHitIsMostSimilar ==
    (lastCall.op = "get" /\ lastCall.tier = "semantic") =>
        LET similarities ==
                Similarities(Transform(NormalizeQuery(lastCall.query), query_vectors),
                             query_vectors)
        IN  lastCall.found.embedding =
                [set |-> TRUE, row |-> query_vectors[ArgMax(similarities)]]

\* C34: whenever find_similar returns an entry, it is the CachedResponse stored
\* together with the most similar cached query: the rows of query_vectors and
\* the elements of cached_responses stay index-aligned after any sequence of
\* add_to_cache calls.
C34_SimilarEntryIsAligned == VectorsAligned /\ SemanticHitIsMostSimilar

\* C36: in every state reachable by get_cached_response, cache_response and
\* clear_cache, total_requests = exact_hits + semantic_hits + misses (hits of
\* the popular tier counted as exact_hits), so the hit rate get_cache_stats
\* reports lies between 0 and 100.
C36_CountersAddUp ==
    /\ stats.total_requests = stats.exact_hits + stats.semantic_hits + stats.misses
    /\ \A key \in DOMAIN stats : stats[key] >= 0
    /\ stats.total_requests > 0 =>
          /\ HitRatePercent(stats).num >= 0
          /\ HitRatePercent(stats).num <= 100 * HitRatePercent(stats).den

\* a hit of the popular tier and a miss or a hit of the semantic tier have
\* been counted, with a cache_response or a clear_cache besides
C36_Witness ==
    /\ lastCall.op = "get"
    /\ lastCall.tier = "popular"
    /\ stats.total_requests = 2
    /\ stats.exact_hits = 1
    /\ stats.misses + stats.semantic_hits = 1
    /\ intel_calls = MaxIntelCalls
----------------------------------------------------------------------------
(* SpecWarm: warm_up_cache on a new IntelligentChatCache, then               *)
(* get_cached_response and cache_response calls                              *)

\* calls in one behaviour of SpecWarm, those of the warm-up included
MaxWarmCalls == 5

\* common_queries of warm_up_cache: a question that holds a popular keyword
\* (which is a preloaded pattern as well), and one that holds none
COMMON_QUERIES ==
    << [query |-> <<"x", " ", "g", "v">>, response |-> <<"w", "1">>, sources |-> <<"o.md">>],
       [query |-> <<"x", "y">>, response |-> <<"w", "2">>, sources |-> <<"q.md">>] >>

\* the queries asked after the warm-up: the common ones and a new one
WarmQueries == {COMMON_QUERIES[1].query, COMMON_QUERIES[2].query, <<"z", "z">>}
WarmContexts == {NoText, <<"c">>}

\* warm_up_cache(): preload_common_queries calls cache_response for each of
\* common_queries in turn, with the default context; this is its next call
WarmUpCache ==
    /\ intel_calls < Len(COMMON_QUERIES)
    /\ CacheResponse(COMMON_QUERIES[intel_calls + 1].query,
                     COMMON_QUERIES[intel_calls + 1].response,
                     COMMON_QUERIES[intel_calls + 1].sources, NoText)

WarmedUp == intel_calls >= Len(COMMON_QUERIES)

WarmNext ==
    \/ WarmUpCache /\ UNCHANGED <<server_vars, rag_vars, perf_vars, call_vars, rest_vars>>
    \/ \E query \in WarmQueries, context \in WarmContexts :
          /\ WarmedUp
          /\ intel_calls < MaxWarmCalls
          /\ GetCachedResponse(query, context)
          /\ UNCHANGED <<server_vars, rag_vars, perf_vars, call_vars, rest_vars>>
    \/ \E query \in WarmQueries, context \in WarmContexts :
          /\ WarmedUp
          /\ intel_calls < MaxWarmCalls
          /\ CacheResponse(query, UsageResponse, IntelSources, context)
          /\ UNCHANGED <<server_vars, rag_vars, perf_vars, call_vars, rest_vars>>

SpecWarm == IntelInit /\ [][WarmNext]_vars

----------------------------------------------------------------------------
(* Claims on the warmed-up cache (SpecWarm) *)

\* C26: after warm_up_cache, a get_cached_response for a query under a
\* conversation context for which cache_response was never called is a miss:
\* a (query, context) pair is hit only after a response was stored for it.
C26_HitOnlyAfterStore ==
    (/\ WarmedUp
     /\ lastCall.op = "get"
     /\ GetQueryHash(lastCall.query, lastCall.context) \notin stored_hashes)
        => lastCall.tier = "miss"
----------------------------------------------------------------------------
(* SpecSemantic: enough cache_response calls on one IntelligentChatCache to  *)
(* fill the semantic tier beyond its bound                                   *)

\* calls in one behaviour of SpecSemantic
MaxSemanticCalls == 5

SemanticQueries == {<<"g", "v">>, <<"x", "y">>, <<"z", "z">>}

SemanticNext ==
    \/ \E query \in SemanticQueries :
          /\ intel_calls < MaxSemanticCalls
          /\ CacheResponse(query, UsageResponse, IntelSources, NoText)
          /\ UNCHANGED <<server_vars, rag_vars, perf_vars, call_vars, rest_vars>>
    \/ \E query \in SemanticQueries :
          /\ intel_calls < MaxSemanticCalls
          /\ GetCachedResponse(query, NoText)
          /\ UNCHANGED <<server_vars, rag_vars, perf_vars, call_vars, rest_vars>>

SpecSemantic == IntelInit /\ [][SemanticNext]_vars

----------------------------------------------------------------------------
(* Claims on the bound of the semantic tier (SpecSemantic) *)

\* the step is a cache_response whose entry takes the semantic tier beyond
\* its bound
BoundExceeded ==
    /\ StoreFollows
    /\ ~NothingToFit(lastCall'.query)
    /\ Len(cached_responses) = SEMANTIC_CACHE_SIZE

\* C28: the semantic tier never holds more than its bound after add_to_cache
\* returns, and an entry that takes it beyond the bound makes it evict the
\* oldest half of its entries, not a single one.
C28_SemanticEvictsHalf ==
    [][/\ Len(cached_responses') <= SEMANTIC_CACHE_SIZE
       /\ BoundExceeded =>
             Len(cached_responses') <=
                 (SEMANTIC_CACHE_SIZE + 1) - (SEMANTIC_CACHE_SIZE + 1) \div 2]_vars
----------------------------------------------------------------------------
(* SpecHistory: _smart_truncate_history and build_history_context_async on   *)
(* message lists and settings of MAX_HISTORY_MESSAGES drawn at the start     *)

\* the longest message list and the largest max_messages
MaxMessages == 5
MaxHistory == 4

\* message lists of user and assistant messages; the content tells the place
\* of the message in the list
Histories ==
    UNION {{[i \in 1..n |-> [role |-> roles[i], content |-> <<"m", ToString(i)>>]] :
               roles \in [1..n -> {"user", "assistant"}]} : n \in 0..MaxMessages}

other_than_hist ==
    <<server_vars, rag_vars, perf_vars, call_vars, intel_vars, conv_vars, ingest_vars,
      key_vars, mgr_vars>>

HistoryInit ==
    /\ ServerQuiet
    /\ RagStart
    /\ PerfQuiet
    /\ CallsStart
    /\ IntelStart
    /\ ConvStart
    /\ IngestStart
    /\ KeysStart
    /\ MgrStart
    /\ \E messages \in Histories, max_messages \in 1..MaxHistory :
          truncation = [op |-> "input", messages |-> messages,
                        max_messages |-> max_messages,
                        threshold |-> ASYNC_HISTORY_THRESHOLD_DEFAULT,
                        result |-> <<>>, path |-> "none"]

HistoryNext ==
    \/ SmartTruncateCall
          /\ UNCHANGED other_than_hist
    \/ BuildHistoryCall
          /\ UNCHANGED other_than_hist

SpecHistory == HistoryInit /\ [][HistoryNext]_vars

----------------------------------------------------------------------------
(* Claims on the history functions (SpecHistory) *)

\* the oldest ceil(k/2) of the messages, one gap marker, the newest floor(k/2)
SplitAround(selected, messages, k) ==
    LET oldest == (k + 1) \div 2
        newest == k \div 2
    IN  /\ Len(selected) = k + 1
        /\ SubSeq(selected, 1, oldest) = SubSeq(messages, 1, oldest)
        /\ selected[oldest + 1].role = "system"
        /\ SubSeq(selected, oldest + 2, k + 1)
              = SubSeq(messages, Len(messages) - newest + 1, Len(messages))

\* selected holds the whole of messages as a run
HoldsAll(selected, messages) ==
    \E i \in 0..(Len(selected) - Len(messages)) :
        SubSeq(selected, i + 1, i + Len(messages)) = messages

\* C19: for every max_history >= 1 and every message list longer than it, the
\* selected history is the oldest ceil(max_history/2) messages, one gap marker
\* and the newest floor(max_history/2) messages in their order, and never holds
\* the full list. build_history_context_async leaves out a user message at
\* the end of the selection; that much is granted to it here.
C19_OldestGapNewest ==
    (truncation.op \in {"_smart_truncate_history", "build_history_context_async"}
        /\ Len(truncation.messages) > truncation.max_messages)
      => /\ ~HoldsAll(truncation.result, truncation.messages)
         /\ \/ SplitAround(truncation.result, truncation.messages,
                           truncation.max_messages)
            \/ /\ truncation.op = "build_history_context_async"
               /\ truncation.messages[Len(truncation.messages)].role = "user"
               /\ SplitAround(Append(truncation.result,
                                     truncation.messages[Len(truncation.messages)]),
                              truncation.messages, truncation.max_messages)
----------------------------------------------------------------------------
(* SpecOffload: build_history_context_async on conversations of up to        *)
(* MaxStored messages under the default MAX_HISTORY_MESSAGES, with the       *)
(* default and a low ASYNC_HISTORY_THRESHOLD                                 *)

\* the longest conversation: beyond 3 x 12 messages
MaxStored == 40

\* conversations as the endpoints store them: user and assistant messages in
\* turn, from either of them on
Conversations ==
    {[i \in 1..n |-> [role |-> IF i % 2 = first THEN "user" ELSE "assistant",
                      content |-> <<"m", ToString(i)>>]] :
        n \in 1..MaxStored, first \in {0, 1}}

OffloadInit ==
    /\ ServerQuiet
    /\ RagStart
    /\ PerfQuiet
    /\ CallsStart
    /\ IntelStart
    /\ ConvStart
    /\ IngestStart
    /\ KeysStart
    /\ MgrStart
    /\ \E messages \in Conversations,
          threshold \in {ASYNC_HISTORY_THRESHOLD_LOW, ASYNC_HISTORY_THRESHOLD_DEFAULT} :
          truncation = [op |-> "input", messages |-> messages,
                        max_messages |-> MAX_HISTORY_MESSAGES_DEFAULT,
                        threshold |-> threshold,
                        result |-> <<>>, path |-> "none"]

OffloadNext ==
    \/ SmartTruncateCall /\ UNCHANGED other_than_hist
    \/ BuildHistoryCall /\ UNCHANGED other_than_hist

SpecOffload == OffloadInit /\ [][OffloadNext]_vars

----------------------------------------------------------------------------
(* Claims on the offload of history formatting (SpecOffload) *)

\* build_history_context_async has run under the default configuration
BuiltByDefault ==
    /\ truncation.op = "build_history_context_async"
    /\ truncation.max_messages = MAX_HISTORY_MESSAGES_DEFAULT
    /\ truncation.threshold = ASYNC_HISTORY_THRESHOLD_DEFAULT

\* C29: whenever the conversation of a request holds more messages than the
\* offload threshold (20 by default), build_history_context_async formats the
\* history on the executor and not inline on the event loop, so that the
\* executor path is taken under the default configuration.
C29_LongHistoryOffloaded ==
    (BuiltByDefault /\ Len(truncation.messages) > truncation.threshold)
        => truncation.path = "executor"
----------------------------------------------------------------------------
(* SpecStore: many requests of one user on one conversation, through         *)
(* chat_endpoint and chat_stream_endpoint, for the size of the stored list   *)

\* requests started in one behaviour of SpecStore
MaxStoreRequests == 5

\* result.data of an agent run, and a failed run
StoreOutcomes == AgentOutcomes({Rep("x", 11)}, {{}})

StoreInit ==
    /\ ServerStart
    /\ RagStart
    /\ PerfQuiet
    /\ CallsStart
    /\ IntelStart
    /\ RestStart
    /\ USER_RATE_LIMIT = MaxStoreRequests
    /\ ASYNC_HISTORY_THRESHOLD = ASYNC_HISTORY_THRESHOLD_DEFAULT
    /\ OPENAI_API_KEY = TRUE

StoreNext ==
    \/ \E r \in Slots, message \in {<<"a">>, <<"b">>} :
          /\ started < MaxStoreRequests
          /\ ChatStart(r, message, <<"c">>, NoText, <<"u">>, NoText, NoText, TRUE)
          /\ UNCHANGED other_than_server
    \/ \E r \in Slots :
          /\ started < MaxStoreRequests
          /\ StreamStart(r, <<"a">>, <<"c">>, NoText, <<"u">>, NoText, NoText, TRUE)
          /\ UNCHANGED other_than_server
    \/ \E r \in Slots, outcome \in StoreOutcomes :
          ChatAgentDone(r, outcome) /\ UNCHANGED other_than_server
    \/ \E r \in Slots, outcome \in StoreOutcomes :
          StreamAgentDone(r, outcome) /\ UNCHANGED other_than_server

SpecStore == StoreInit /\ [][StoreNext]_vars

----------------------------------------------------------------------------
(* Claims on the conversation store (SpecStore) *)

\* the messages stored for a conversation
Stored(conv_id) == lists[conversations[conv_id]]

\* C20: the stored list of a conversation is bounded whichever endpoint
\* appends to it: a list of more than 3 x max_history messages is trimmed to
\* its 2 x max_history most recent ones, so that no list is longer than
\* 3 x max_history but for the one assistant message each handler in flight
\* may add before the next trim.
C20_StoreBounded ==
    \A conv_id \in DOMAIN conversations :
        Len(Stored(conv_id)) <= 3 * MAX_HISTORY_MESSAGES + MaxInFlight
----------------------------------------------------------------------------
(* SpecConv: chat requests of one user on two conversations, with the        *)
(* cleanup sweep and the /conversations requests in between                  *)

\* requests started in one behaviour of SpecConv
MaxConvRequests == 2

ConvIds == {<<"c">>, <<"d">>}
\* result.data of an agent run (too short for the chat cache), and a timeout
ConvOutcomes == AgentOutcomes({<<"x">>}, {})

other_than_conv ==
    <<rag_vars, perf_vars, call_vars, intel_vars, hist_vars, ingest_vars, key_vars, mgr_vars>>

ConvInit ==
    /\ ServerStart
    /\ RagStart
    /\ PerfQuiet
    /\ CallsStart
    /\ IntelStart
    /\ RestStart
    /\ USER_RATE_LIMIT = MaxConvRequests
    /\ ASYNC_HISTORY_THRESHOLD = ASYNC_HISTORY_THRESHOLD_DEFAULT
    /\ OPENAI_API_KEY = TRUE

ConvNext ==
    \/ \E r \in Slots, conversation_id \in ConvIds :
          /\ started < MaxConvRequests
          /\ ChatStart(r, <<"a">>, conversation_id, NoText, <<"u">>, NoText, NoText, TRUE)
          /\ lastConv' = NoConv
          /\ UNCHANGED other_than_conv
    \/ \E r \in Slots, outcome \in ConvOutcomes :
          ChatAgentDone(r, outcome) /\ lastConv' = NoConv /\ UNCHANGED other_than_conv
    \/ Tick /\ lastConv' = NoConv /\ UNCHANGED other_than_conv
    \/ CleanupExpiredConversations /\ UNCHANGED other_than_conv
    \/ \E conversation_id \in ConvIds :
          GetConversation(conversation_id) /\ UNCHANGED other_than_conv
    \/ \E conversation_id \in ConvIds :
          DeleteConversation(conversation_id) /\ UNCHANGED other_than_conv
    \/ ClearConversations /\ UNCHANGED other_than_conv

SpecConv == ConvInit /\ [][ConvNext]_vars

----------------------------------------------------------------------------
(* Claims on the lifetime of conversations (SpecConv) *)

\* a message is appended to the stored list of cid in this step
AppendedTo(cid) ==
    /\ cid \in DOMAIN conversations'
    /\ \/ cid \notin DOMAIN conversations
       \/ lists'[conversations'[cid]] # lists[conversations[cid]]

\* C21: every append of a message to a conversation, the user message of a
\* request as well as the assistant message of a successful agent run, leaves
\* the conversation with a meta record whose last_activity is the time of the
\* append.
C21_AppendSetsLastActivity ==
    [][\A cid \in ConvIds :
          AppendedTo(cid) =>
             /\ cid \in DOMAIN conversation_meta'
             /\ metas'[conversation_meta'[cid]].last_activity = now']_vars

\* the conversations known before the last sweep or /conversations request
KnownBefore == DOMAIN lastConv.before.messages \cup DOMAIN lastConv.before.activity

\* the TTL since the last_activity of cid had elapsed when that call was made
TtlElapsed(cid) ==
    /\ cid \in DOMAIN lastConv.before.activity
    /\ lastConv.at - lastConv.before.activity[cid] > Seconds(CONVERSATION_TTL_SECONDS)

Destroyed(cid) ==
    \/ cid \notin DOMAIN conversation_meta
    \/ IsExpired(conversation_meta, metas, cid, now)

\* the handler in slot r passes the rate limit in this step and goes on to
\* its agent run with the history context it has built
Admitted(r) == req[r].pc = "idle" /\ req'[r].pc = "agent_run"

\* C23: a conversation whose TTL since last_activity has elapsed, or that was
\* explicitly deleted, is destroyed for every later operation: get_conversation
\* answers 404 without its messages, and a chat request on the same id builds
\* its history context from none of the old messages.
C23_DestroyedForLaterOperations ==
    [][/\ \A r \in Slots :
             (Admitted(r) /\ Destroyed(req'[r].conv_id)) =>
                 /\ req'[r].history = <<>>
                 /\ Len(lists'[req'[r].msgs]) = 1
       /\ (lastConv'.op = "get" /\ Destroyed(lastConv'.conversation_id)) =>
             /\ lastConv'.status = 404
             /\ lastConv'.messages = <<>>]_vars

\* the chat_endpoint request in slot r returns the response of a successful
\* agent run in this step
CompletesSuccessfully(r) ==
    /\ req[r].pc = "agent_run"
    /\ req[r].ep = "chat"
    /\ req'[r].pc = "idle"
    /\ lastDone'.outcome = "success"

\* the stored conversation cid holds the user message and, after it, the
\* assistant reply
HoldsExchange(cid, message, reply) ==
    /\ cid \in DOMAIN conversations'
    /\ LET msgs == lists'[conversations'[cid]]
       IN  \E i, j \in 1..Len(msgs) :
              /\ i < j
              /\ msgs[i] = [role |-> "user", content |-> message]
              /\ msgs[j] = [role |-> "assistant", content |-> reply]

\* C35: under any interleaving of a chat_endpoint request with
\* cleanup_expired_conversations, delete_conversation or clear_conversations
\* on its conversation id while the request awaits the agent, a request that
\* completes successfully leaves its user message and the assistant reply in
\* conversations[conversation_id], and conversations and conversation_meta
\* have the same key set throughout.
C35_CompletedRequestIsStored ==
    [][/\ DOMAIN conversations' = DOMAIN conversation_meta'
       /\ \A r \in Slots :
             CompletesSuccessfully(r) =>
                 HoldsExchange(req[r].conv_id, req[r].message,
                               lastDone'.result.body.response)]_vars
----------------------------------------------------------------------------
(* SpecIngest: the document requests that write into the index, after a      *)
(* startup with or without auto-ingest                                       *)

other_than_ingest ==
    <<server_vars, rag_vars, perf_vars, call_vars, intel_vars, hist_vars, conv_vars,
      key_vars, mgr_vars>>

IngestInit ==
    /\ ServerQuiet
    /\ RagStart
    /\ PerfQuiet
    /\ CallsStart
    /\ IntelStart
    /\ HistStart
    /\ ConvStart
    /\ KeysStart
    /\ MgrStart
    /\ IngestStartup

IngestNext ==
    \/ \E files \in 0..MaxFiles : StartupDone(files) /\ UNCHANGED other_than_ingest
    \/ \E r \in IngestSlots : InsertDocument(r) /\ UNCHANGED other_than_ingest
    \/ \E r \in IngestSlots, do_ingest \in BOOLEAN :
          UploadDocument(r, do_ingest) /\ UNCHANGED other_than_ingest
    \/ \E r \in IngestSlots, files \in 0..MaxFiles :
          IngestScan(r, files) /\ UNCHANGED other_than_ingest
    \/ \E r \in IngestSlots : IngestFilesInsert(r) /\ UNCHANGED other_than_ingest
    \/ \E r \in IngestSlots : AInsertDone(r) /\ UNCHANGED other_than_ingest
    \/ \E r \in IngestSlots : IngestTimeout(r) /\ UNCHANGED other_than_ingest

SpecIngest == IngestInit /\ [][IngestNext]_vars

----------------------------------------------------------------------------
(* Claims on index writes (SpecIngest) *)

\* the requests with a rag.ainsert in flight
IndexWriters == {r \in IngestSlots : ingest[r].writing > 0}

\* C25: at most one request at a time writes into the document index: the
\* rag.ainsert calls of /documents/upload, /documents/ingest/scan and
\* /documents/insert never overlap with those of another request, nor with the
\* auto-ingest of the startup.
C25_OneIndexWriter ==
    Cardinality(IndexWriters) + (IF startup = "auto_ingest" THEN 1 ELSE 0) <= 1
----------------------------------------------------------------------------
(* SpecKeys: the exact-cache keys of pairs of queries drawn at the start     *)

\* one question in several spellings (case, blanks around it, a longer run of
\* blanks or a newline inside it) and two other questions
KeyQueries ==
    { <<"g", " ", "x">>, <<"G", " ", "X">>, <<" ", "g", " ", "x">>,
      <<"g", " ", "x", " ">>, <<"g", " ", " ", "x">>, <<"g", "\n", "x">>,
      <<"g", "x">>, <<"x", " ", "g">> }

\* chat requests whose message, conversation_id and user_id are client text,
\* with and without the separator of the cache key in it
KeyRequests ==
    [message : {<<"a">>, <<"a", "|", "c">>},
     conversation_id : {NoText, <<"d">>, <<"c", "|", "d">>},
     user_id : {NoText, <<"u">>},
     model : {NoText, <<"m">>}]

other_than_keys ==
    <<server_vars, rag_vars, perf_vars, call_vars, intel_vars, hist_vars, conv_vars,
      ingest_vars, mgr_vars>>

KeysInit ==
    /\ ServerQuiet
    /\ RagStart
    /\ PerfQuiet
    /\ CallsStart
    /\ IntelStart
    /\ HistStart
    /\ ConvStart
    /\ IngestStart
    /\ MgrStart
    /\ \E first \in KeyQueries, second \in KeyQueries :
          keyed = [op |-> "input", queries |-> <<first, second>>,
                   first |-> NoText, second |-> NoText]

KeysNext ==
    \/ \E context \in IntelContexts :
          QueryHashCall(context) /\ UNCHANGED other_than_keys
    \/ ChatCacheKeyCall(<<"c">>, <<"u">>, DEFAULT_MODEL) /\ UNCHANGED other_than_keys
    \/ \E first_request \in KeyRequests, second_request \in KeyRequests :
          ChatEndpointKeys(first_request, second_request) /\ UNCHANGED other_than_keys

SpecKeys == KeysInit /\ [][KeysNext]_vars

----------------------------------------------------------------------------
(* Claims on the cache keys (SpecKeys) *)

\* a text with every run of whitespace collapsed to one blank
RECURSIVE CollapseWhitespace(_)
CollapseWhitespace(s) ==
    IF s = <<>> THEN <<>>
    ELSE IF IsSpace(Head(s))
    THEN IF Len(s) > 1 /\ IsSpace(s[2]) THEN CollapseWhitespace(Tail(s))
         ELSE <<" ">> \o CollapseWhitespace(Tail(s))
    ELSE <<Head(s)>> \o CollapseWhitespace(Tail(s))

\* the queries differ in letter case, in leading or trailing whitespace and in
\* the length of runs of internal whitespace at most
SameButForm(a, b) ==
    CollapseWhitespace(Strip(Lower(a))) = CollapseWhitespace(Strip(Lower(b)))

\* C27: two queries that differ only in letter case, in leading or trailing
\* whitespace or in the length of runs of internal whitespace have the same
\* exact-cache key, in IntelligentChatCache (_get_query_hash) and in the cache
\* of chat_endpoint (_get_chat_cache_key) alike.
C27_SameKeyButForForm ==
    (/\ keyed.op \in {"_get_query_hash", "_get_chat_cache_key"}
     /\ SameButForm(keyed.queries[1], keyed.queries[2]))
        => keyed.first = keyed.second

\* C38: two chat requests obtain the same chat cache key only if their
\* (message, conversation_id, user_id, model) tuples are identical (collisions
\* of the digest aside), whatever text the client puts in message,
\* conversation_id or user_id.
C38_SameKeyOnlyForSameTuple ==
    (keyed.op = "chat_endpoint" /\ keyed.first = keyed.second)
        => keyed.tuples[1] = keyed.tuples[2]

----------------------------------------------------------------------------
(* SpecMgr: concurrent get_rag and initialize calls on one RAGManager        *)

RagOps == {"get_rag", "initialize"}

other_than_mgr ==
    <<rag_vars, perf_vars, call_vars, intel_vars, hist_vars, conv_vars, ingest_vars,
      key_vars>>

MgrInit ==
    /\ ServerStart
    /\ USER_RATE_LIMIT = MaxLimit
    /\ ASYNC_HISTORY_THRESHOLD = ASYNC_HISTORY_THRESHOLD_DEFAULT
    /\ OPENAI_API_KEY \in BOOLEAN
    /\ RagStart
    /\ PerfQuiet
    /\ CallsStart
    /\ IntelStart
    /\ RestStart

MgrNext ==
    \/ \E p \in RagCallers, op \in RagOps :
          /\ mgr_calls < MaxRagCalls
          /\ RagCall(p, op)
          /\ UNCHANGED <<server_vars, other_than_mgr>>
    \/ \E p \in RagCallers, ok \in BOOLEAN :
          InitializeStoragesDone(p, ok) /\ UNCHANGED <<server_vars, other_than_mgr>>
    \/ \E p \in RagCallers, ok \in BOOLEAN :
          PipelineStatusDone(p, ok) /\ UNCHANGED <<server_vars, other_than_mgr>>

SpecMgr == MgrInit /\ [][MgrNext]_vars

----------------------------------------------------------------------------
(* Claims on RAGManager (SpecMgr) *)

\* C39: under any interleaving of concurrent get_rag and initialize calls on
\* one RAGManager, at most one LightRAG instance is created, an instance is
\* never initialized a second time, and no caller is handed an instance whose
\* initialize_storages has not completed or has failed.
C39_OneInitializedInstance ==
    /\ Len(rag_made) <= 1
    /\ \A i \in 1..Len(rag_made) : rag_made[i].initialized_times <= 1
    /\ lastHanded.op # "none" /\ lastHanded.outcome = "returned"
          => lastHanded.storages = "initialized"

----------------------------------------------------------------------------
(* SpecUsers: chat requests of two users, with a conversation id of their    *)
(* choice or none                                                            *)

\* requests started in one behaviour of SpecUsers
MaxUserRequests == 3

UserIds == {<<"u">>, <<"v">>}
\* conversation_id of a request: absent, or a text the client chose
UserConversationIds == {NoText, <<"c">>}

UsersInit ==
    /\ ServerStart
    /\ RagStart
    /\ PerfQuiet
    /\ CallsStart
    /\ IntelStart
    /\ RestStart
    /\ USER_RATE_LIMIT = MaxUserRequests
    /\ ASYNC_HISTORY_THRESHOLD = ASYNC_HISTORY_THRESHOLD_DEFAULT
    /\ OPENAI_API_KEY = TRUE

UsersNext ==
    \/ \E r \in Slots, conversation_id \in UserConversationIds, user_id \in UserIds :
          /\ started < MaxUserRequests
          /\ ChatStart(r, <<"a">>, conversation_id, NoText, user_id, NoText, NoText, TRUE)
          /\ UNCHANGED other_than_server
    \/ \E r \in Slots, outcome \in ConvOutcomes :
          ChatAgentDone(r, outcome) /\ UNCHANGED other_than_server

SpecUsers == UsersInit /\ [][UsersNext]_vars

----------------------------------------------------------------------------
(* Claims on the history of a user (SpecUsers) *)

\* C40: the history context chat_endpoint builds into the prompt contains only
\* messages sent in earlier requests of the same user_id, also when no
\* conversation_id is supplied and the id is derived from the message: a
\* request of a user who has sent no request before is run with an empty
\* history context.
C40_HistoryOfSameUserOnly ==
    [][\A r \in Slots :
          (Admitted(r) /\ req'[r].user_id \notin DOMAIN user_rate)
              => req'[r].history = <<>>]_vars

====
